---- MODULE Spec2Model ----
(***************************************************************************)
(* canvas-calendar-bridge: the Canvas client (canvas.ts), the Google       *)
(* Calendar client (google-calendar.ts) and the tool request handler       *)
(* (index.ts), modelled as a state machine.                                *)
(*                                                                         *)
(* Instants are counted in whole seconds since the Unix epoch (the source  *)
(* counts milliseconds; Canvas timestamps carry whole seconds).  A date    *)
(* string is a record of its UTC civil fields, so that parsing             *)
(* (new Date(s)), formatting (toISOString) and the conversion to the       *)
(* America/New_York wall clock are computed, not assumed.                  *)
(***************************************************************************)
EXTENDS Integers, Sequences, FiniteSets, TLC

(***************************************************************************)
(* Bounds of the model                                                     *)
(***************************************************************************)
MaxCourses == 2
MaxItems == 2
MaxRuns == 2
MaxTicks == 1
MaxFaults == 1

(***************************************************************************)
(* JavaScript values                                                       *)
(***************************************************************************)
\* an absent (undefined) string field; template literals print it like this
Undefined == "undefined"

\* truthiness of a string-valued field
Truthy(s) == s # Undefined /\ s # ""

\* an absent numeric field (points_possible, quiz_id)
NoNumber == -1

\* truthiness of a number-valued field: undefined and 0 are falsy
TruthyNum(n) == n # NoNumber /\ n # 0

(***************************************************************************)
(* Date strings and Date objects                                           *)
(***************************************************************************)
\* kind: "undefined" (null/undefined), "empty" (""), "garbage" (a non-empty
\* string that is not a date), "iso" (YYYY-MM-DDTHH:mm:ssZ)
DateStr(kind, y, mo, d, h, mi, s) ==
  [kind |-> kind, y |-> y, mo |-> mo, d |-> d, h |-> h, mi |-> mi, s |-> s]

NoDate == DateStr("undefined", 0, 0, 0, 0, 0, 0)
NullDate == DateStr("null", 0, 0, 0, 0, 0, 0)
EmptyDate == DateStr("empty", 0, 0, 0, 0, 0, 0)
GarbageDate == DateStr("garbage", 0, 0, 0, 0, 0, 0)
Iso(y, mo, d, h, mi, s) == DateStr("iso", y, mo, d, h, mi, s)

\* !!s for a date string s
TruthyDate(s) == s.kind \in {"garbage", "iso"}

\* a || b on date strings
OrDate(a, b) == IF TruthyDate(a) THEN a ELSE b

\* 1000 * 60 * 60 * 24 in the source, in seconds here
DayLen == 60 * 60 * 24

\* 60 * 60 * 1000 in the source, in seconds here
HourLen == 60 * 60

\* days since 1970-01-01 of a proleptic Gregorian date
DaysFromCivil(y, m, d) ==
  LET yy == IF m <= 2 THEN y - 1 ELSE y
      era == yy \div 400
      yoe == yy - era * 400
      mp == IF m > 2 THEN m - 3 ELSE m + 9
      doy == (153 * mp + 2) \div 5 + d - 1
      doe == yoe * 365 + yoe \div 4 - yoe \div 100 + doy
  IN era * 146097 + doe - 719468

\* the Gregorian date of a day number
CivilFromDays(z0) ==
  LET Fields(y0, mp, d) ==
        [y |-> y0 + (IF mp < 10 THEN 0 ELSE 1),
         mo |-> IF mp < 10 THEN mp + 3 ELSE mp - 9, d |-> d]
      OfMonth(y0, doy, mp) == Fields(y0, mp, doy - (153 * mp + 2) \div 5 + 1)
      OfDayOfYear(y0, doy) == OfMonth(y0, doy, (5 * doy + 2) \div 153)
      OfYearOfEra(era, doe, yoe) ==
        OfDayOfYear(yoe + era * 400, doe - (365 * yoe + yoe \div 4 - yoe \div 100))
      OfDayOfEra(era, doe) ==
        OfYearOfEra(era, doe,
                    (doe - doe \div 1460 + doe \div 36524 - doe \div 146096) \div 365)
      OfEra(z, era) == OfDayOfEra(era, z - era * 146097)
  IN OfEra(z0 + 719468, (z0 + 719468) \div 146097)

\* civil fields (date and time of day) of an instant shifted by off seconds
CivilAt(t, off) ==
  LET Fields(c, sod) ==
        [y |-> c.y, mo |-> c.mo, d |-> c.d,
         h |-> sod \div 3600, mi |-> (sod % 3600) \div 60, s |-> sod % 60]
  IN Fields(CivilFromDays((t + off) \div DayLen), (t + off) % DayLen)

\* new Date(s): a Date object; time is getTime(), valid is !isNaN(getTime())
DateParse(s) ==
  IF s.kind = "iso"
  THEN [valid |-> TRUE,
        time |-> DaysFromCivil(s.y, s.mo, s.d) * DayLen + s.h * 3600 + s.mi * 60 + s.s]
  ELSE [valid |-> FALSE, time |-> 0]

\* new Date(ms) for a number
DateOf(t) == [valid |-> TRUE, time |-> t]

\* Date.prototype.toISOString of a valid Date
ToISOString(date) ==
  LET Format(c) == Iso(c.y, c.mo, c.d, c.h, c.mi, c.s)
  IN Format(CivilAt(date.time, 0))

\* day number of the first Sunday on or after day number d1
SundayOnOrAfter(d1) == d1 + ((7 - ((d1 + 4) % 7)) % 7)

\* offset of America/New_York from UTC at instant t, in seconds: daylight
\* time from the second Sunday of March 07:00Z to the first Sunday of
\* November 06:00Z
NewYorkOffset(t) ==
  LET dstStart(y) == (SundayOnOrAfter(DaysFromCivil(y, 3, 1)) + 7) * DayLen + 7 * 3600
      dstEnd(y) == SundayOnOrAfter(DaysFromCivil(y, 11, 1)) * DayLen + 6 * 3600
      OfYear(y) == IF dstStart(y) <= t /\ t < dstEnd(y) THEN -4 * 3600 ELSE -5 * 3600
  IN OfYear(CivilAt(t, 0).y)

\* two-digit rendering of a field
Pad2(n) == IF n < 10 THEN "0" \o ToString(n) ELSE ToString(n)

MonthName(m) ==
  CASE m = 1 -> "January" [] m = 2 -> "February" [] m = 3 -> "March"
    [] m = 4 -> "April" [] m = 5 -> "May" [] m = 6 -> "June"
    [] m = 7 -> "July" [] m = 8 -> "August" [] m = 9 -> "September"
    [] m = 10 -> "October" [] m = 11 -> "November" [] m = 12 -> "December"

\* The hour cycle the runtime's Intl picks for en-US with hour12: false:
\* "h24" (hours 01..24, the rule of ECMA-402 up to its 2022 edition for a
\* locale whose default cycle is h12) or "h23" (hours 00..23, later
\* editions).  It is fixed by the build the server runs on.
VARIABLES hourCycle

\* the cycles a build can have
HourCycles == {"h23", "h24"}

\* the hour field of a 24-hour rendering
Hour24(h) == IF hourCycle = "h24" /\ h = 0 THEN 24 ELSE h

\* toLocaleString('en-US', {timeZone: 'America/New_York', 2-digit fields,
\* hour12: false}): "MM/DD/YYYY, HH:mm:ss"
EstDateStr(t) ==
  LET Format(c) ==
        [date |-> <<Pad2(c.mo), Pad2(c.d), ToString(c.y)>>,
         time |-> Pad2(Hour24(c.h)) \o ":" \o Pad2(c.mi) \o ":" \o Pad2(c.s)]
  IN Format(CivilAt(t, NewYorkOffset(t)))

\* toLocaleString('en-US', {timeZone: 'America/New_York', month: 'long',
\* day: 'numeric', year: 'numeric', hour: 'numeric', minute: '2-digit',
\* hour12: true})
Readable(t) ==
  LET Format(c, h12) ==
        MonthName(c.mo) \o " " \o ToString(c.d) \o ", " \o ToString(c.y) \o " at "
          \o ToString(h12) \o ":" \o Pad2(c.mi) \o (IF c.h < 12 THEN " AM" ELSE " PM")
      OfFields(c) == Format(c, IF c.h % 12 = 0 THEN 12 ELSE c.h % 12)
  IN OfFields(CivilAt(t, NewYorkOffset(t)))

\* the pair convertToEST would build from an invalid Date without its isNaN
\* test: 'Invalid Date' has no ', ' and no '/'
convertToESTUnchecked(utcDateString) ==
  IF ~TruthyDate(utcDateString) THEN [ok |-> FALSE, datetime |-> "", readable |-> ""]
  ELSE IF ~DateParse(utcDateString).valid
  THEN [ok |-> TRUE, datetime |-> "undefined-Invalid Date-undefinedTundefined",
        readable |-> "Invalid Date"]
  ELSE [ok |-> TRUE,
        datetime |-> EstDateStr(DateParse(utcDateString).time).time,
        readable |-> Readable(DateParse(utcDateString).time)]

\* the null result of convertToEST
NullEST == [ok |-> FALSE, datetime |-> "", readable |-> ""]

convertToEST(utcDateString) ==
  LET Formatted(datePart, timePart, readable) ==
        [ok |-> TRUE,
         datetime |-> datePart[3] \o "-" \o datePart[1] \o "-" \o datePart[2]
                        \o "T" \o timePart,
         readable |-> readable]
      OfParts(parts, readable) == Formatted(parts.date, parts.time, readable)
      OfDate(date) ==
        IF ~date.valid THEN NullEST
        ELSE OfParts(EstDateStr(date.time), Readable(date.time))
  IN IF ~TruthyDate(utcDateString) THEN NullEST
     ELSE OfDate(DateParse(utcDateString))

(***************************************************************************)
(* Raw Canvas records                                                      *)
(***************************************************************************)
\* the nested assignment sub-record of a raw record (present = FALSE: none)
NestedRecord(present, due_at, name, quiz_id, submission_types, discussion_topic) ==
  [present |-> present, due_at |-> due_at, name |-> name, quiz_id |-> quiz_id,
   submission_types |-> submission_types, discussion_topic |-> discussion_topic]

NoAssignment == NestedRecord(FALSE, NoDate, Undefined, NoNumber, {}, FALSE)

\* a raw record as the assignments endpoint returns it; course_name and
\* course_id are stamped by getUpcomingAssignments
RawRecord(name, published, due_at, quiz_id, is_quiz, submission_types, discussion_topic, type, points, nested) ==
  [id |-> 0, name |-> name, published |-> published, due_at |-> due_at,
   quiz_id |-> quiz_id, is_quiz_assignment |-> is_quiz,
   submission_types |-> submission_types, discussion_topic |-> discussion_topic,
   type |-> type, points_possible |-> points, html_url |-> Undefined,
   description |-> Undefined, assignment |-> nested,
   course_name |-> Undefined, course_id |-> 0]

(***************************************************************************)
(* canvas.ts: classification, filter and transformation                    *)
(***************************************************************************)
\* CanvasClient.detectItemType (private, called from nowhere)
detectItemType(event) ==
  IF event.assignment.present
       /\ (TruthyNum(event.assignment.quiz_id)
             \/ "online_quiz" \in event.assignment.submission_types)
  THEN "quiz"
  ELSE IF event.assignment.present
            /\ (event.assignment.discussion_topic
                  \/ "discussion_topic" \in event.assignment.submission_types)
  THEN "discussion"
  ELSE IF event.assignment.present \/ event.type = "assignment"
  THEN "assignment"
  ELSE "event"

\* the type detection of step 4 of getUpcomingAssignments
ItemType(assignment) ==
  IF assignment.is_quiz_assignment \/ TruthyNum(assignment.quiz_id) THEN "quiz"
  ELSE IF "discussion_topic" \in assignment.submission_types THEN "discussion"
  ELSE "assignment"

\* a filter that keeps every published record
IsIncludedPublished(assignment) == assignment.published = TRUE

\* a filter that also wants a name
IsIncludedNamed(assignment) ==
  assignment.published = TRUE /\ TruthyDate(assignment.due_at) /\ Truthy(assignment.name)

\* the predicate of the filter of step 3 of getUpcomingAssignments
IsIncluded(assignment) ==
  LET isPublished == assignment.published = TRUE
      hasDueDate == TruthyDate(assignment.due_at)
  IN isPublished /\ hasDueDate

\* the transformed item of step 4 of getUpcomingAssignments
Transform(assignment) ==
  [id |-> assignment.id,
   title |-> assignment.name,
   name |-> assignment.name,
   type |-> ItemType(assignment),
   due_at |-> assignment.due_at,
   start_at |-> assignment.due_at,
   end_at |-> assignment.due_at,
   all_day |-> FALSE,
   description |-> IF Truthy(assignment.description) THEN assignment.description ELSE "",
   points_possible |-> assignment.points_possible,
   context_name |-> assignment.course_name,
   context_code |-> "course_" \o ToString(assignment.course_id),
   html_url |-> assignment.html_url,
   assignment |-> assignment]

\* Array.prototype.filter with the predicate IsIncluded
RECURSIVE FilterIncluded(_)
FilterIncluded(list) ==
  IF list = <<>> THEN <<>>
  ELSE IF IsIncluded(Head(list))
       THEN <<Head(list)>> \o FilterIncluded(Tail(list))
       ELSE FilterIncluded(Tail(list))

\* filter, then map, with the latest record first
FilterAndTransformReversed(allAssignments) ==
  LET Mapped(events) ==
        [i \in 1..Len(events) |-> Transform(events[Len(events) + 1 - i])]
  IN Mapped(FilterIncluded(allAssignments))

\* steps 3 and 4 of getUpcomingAssignments: filter, then map
FilterAndTransform(allAssignments) ==
  LET events == FilterIncluded(allAssignments)
  IN [i \in 1..Len(events) |-> Transform(events[i])]

\* a forEach that stamps the course's name only
StampNameOnly(list, course) ==
  [i \in 1..Len(list) |-> [list[i] EXCEPT !.course_name = course.name]]

\* the forEach that stamps a course's records with the course (step 2)
Stamp(list, course) ==
  [i \in 1..Len(list) |->
     [list[i] EXCEPT !.course_name = course.name, !.course_id = course.id]]

(***************************************************************************)
(* Upstream data the model draws from                                      *)
(***************************************************************************)
Due1 == Iso(2025, 11, 8, 4, 59, 59)
Due2 == Iso(2025, 11, 22, 4, 59, 59)

\* the clock at start-up: 23 hours before Due1
Clock0 == DateParse(Due1).time - DayLen + HourLen

\* amounts by which the clock advances in one step
TickSteps == {DayLen}

NearShape ==
  RawRecord("HW", TRUE, Due1, NoNumber, FALSE, {"online_upload"}, FALSE,
            Undefined, 10, NoAssignment)
FarQuizShape ==
  RawRecord("Quiz", TRUE, Due2, 7, FALSE, {"online_quiz"}, FALSE,
            Undefined, 5, NoAssignment)
NearDiscussionShape ==
  RawRecord("Forum", TRUE, Due1, NoNumber, FALSE, {"discussion_topic"}, TRUE,
            Undefined, 0, NoAssignment)
GarbageShape ==
  RawRecord("Bad", TRUE, GarbageDate, NoNumber, FALSE, {"online_upload"}, FALSE,
            Undefined, NoNumber, NoAssignment)
NoDueShape ==
  RawRecord("NoDue", TRUE, NoDate, NoNumber, FALSE, {}, FALSE,
            Undefined, NoNumber, NoAssignment)
NestedOnlyShape ==
  RawRecord("Wrapped", TRUE, NoDate, NoNumber, FALSE, {}, FALSE, "assignment", NoNumber,
            NestedRecord(TRUE, Due1, "Wrapped", NoNumber, {"online_upload"}, FALSE))
UnpublishedShape ==
  RawRecord("Draft", FALSE, Due1, NoNumber, FALSE, {"online_upload"}, FALSE,
            Undefined, 10, NoAssignment)

\* the raw records the LMS serves, in a cycle: an upstream is a number of
\* courses, a number of records per course and a starting point in the cycle
ShapeCycle ==
  <<NearShape, NearDiscussionShape, NearShape, FarQuizShape, GarbageShape,
    NoDueShape, NearShape, NestedOnlyShape, UnpublishedShape>>

ShapeAt(n) == ShapeCycle[((n - 1) % Len(ShapeCycle)) + 1]

\* the courses of the LMS, each with its assignment list: nItems records in
\* the first course, one in every further course
CourseList(nCourses, nItems, start) ==
  [k \in 1..nCourses |->
     [id |-> k, name |-> "Course" \o ToString(k),
      assignments |->
        [j \in 1..(IF k = 1 THEN nItems ELSE 1) |->
           [ShapeAt(start + (IF k = 1 THEN 0 ELSE nItems + k - 2) + j) EXCEPT !.id = 10 * k + j]]]]

Upstreams ==
  {CourseList(n, m, r) : n \in 0..MaxCourses, m \in 0..MaxItems,
                         r \in 0..(Len(ShapeCycle) - 1)}

\* values of the daysAhead argument of sync_to_calendar (NoNumber: absent)
DaysAheadArgs == {NoNumber, 0, 1}

\* outcomes of one CanvasClient.fetch
FetchOutcomes == {"ok", "http", "timeout"}

\* responses of the OAuth token endpoint to a refresh
TokenResponses ==
  {[ok |-> TRUE, access_token |-> "at1", body |-> ""],
   [ok |-> TRUE, access_token |-> Undefined, body |-> ""],
   [ok |-> FALSE, access_token |-> Undefined, body |-> "invalid_grant"]}

\* HTTP statuses of the calendar API
CalendarStatuses == {200, 401}

(***************************************************************************)
(* State                                                                   *)
(***************************************************************************)
VARIABLES
  upstream,        \* the LMS: courses with their raw assignment records
  clock,           \* the current instant (what new Date() reads)
  ticks,           \* how often the clock advanced (bounds the model)
  pc,              \* where the request handler is suspended
  daysAhead,       \* sync_to_calendar: the window
  courseIdx,       \* getUpcomingAssignments: the course being fetched
  allAssignments,  \* getUpcomingAssignments: the aggregated raw records
  assignments,     \* sync_to_calendar: the list getUpcomingAssignments returned
  idx,             \* sync_to_calendar: position of the for loop
  synced,          \* sync_to_calendar: the synced messages
  skipped,         \* sync_to_calendar: the skip reasons
  decisions,       \* per item of this run, what the loop did with it
  pending,         \* the event payload of the createEvent call in progress
  accessToken,     \* GoogleCalendarClient.accessToken
  refreshToken,    \* GoogleCalendarClient.refreshToken
  calendar,        \* the events the calendar service holds
  runs,            \* how many invocations have returned
  results,         \* the response of the latest invocation, until the next call
  faults,          \* how many upstream calls failed (bounds the model)
  utcDateString,   \* convertToEST: the argument of the latest direct call
  converted,       \* convertToEST: what that call returned
  request,         \* the params of the latest tool invocation
  fetchCall,       \* CanvasClient.fetch on its own: the call in progress
  sent             \* the refresh_token the latest refresh request carried

vars ==
  <<upstream, clock, ticks, pc, daysAhead, courseIdx, allAssignments, assignments,
    idx, synced, skipped, decisions, pending, accessToken, refreshToken, calendar,
    results, runs, faults, hourCycle, utcDateString, converted, request, fetchCall, sent>>

\* convertToEST has not been called directly
NotConverted == [ok |-> FALSE, datetime |-> "-", readable |-> "-"]

\* the arguments of a tool invocation none of which is given
NoArgs ==
  [code |-> Undefined, title |-> Undefined, description |-> Undefined,
   startTime |-> Undefined, endTime |-> Undefined, timezone |-> Undefined,
   eventId |-> Undefined, daysAhead |-> NoNumber, maxResults |-> NoNumber]

\* request.params of a tool invocation
Request(name, args) == [name |-> name, arguments |-> args]

\* no tool has been invoked yet
NoRequest == Request("", NoArgs)

\* CanvasClient.fetch is not being followed on its own
NoFetch ==
  [phase |-> "idle", endpoint |-> "", url |-> "", timeoutMs |-> 0, elapsed |-> 0, timer |-> FALSE,
   aborted |-> FALSE, outcome |-> "none", error |-> ""]

\* no event payload
NoEvent == [summary |-> "", description |-> "",
            start |-> [dateTime |-> "", timeZone |-> ""],
            end |-> [dateTime |-> "", timeZone |-> ""],
            reminders |-> [useDefault |-> TRUE, overrides |-> <<>>],
            item |-> 0]

\* no createEvent call in progress
NoPending == [event |-> NoEvent, message |-> ""]

Init ==
  /\ upstream \in Upstreams
  /\ clock = Clock0
  /\ ticks = 0
  /\ pc = "idle"
  /\ daysAhead = 0
  /\ courseIdx = 0
  /\ allAssignments = <<>>
  /\ assignments = <<>>
  /\ idx = 0
  /\ synced = <<>>
  /\ skipped = <<>>
  /\ decisions = <<>>
  /\ pending = NoPending
  /\ accessToken = Undefined
  /\ refreshToken \in {"", "rt0"}
  /\ calendar = <<>>
  /\ results = <<>>
  /\ runs = 0
  /\ faults = 0
  /\ hourCycle \in HourCycles
  /\ utcDateString = NoDate
  /\ converted = NotConverted
  /\ request = NoRequest
  /\ fetchCall = NoFetch
  /\ sent = ""

(***************************************************************************)
(* index.ts: the sync_to_calendar handler                                  *)
(***************************************************************************)
\* Math.ceil(n / d) for d > 0
Ceil(n, d) == -((-n) \div d)

\* Array.prototype.join
RECURSIVE Join(_, _)
Join(list, sep) ==
  IF list = <<>> THEN ""
  ELSE IF Len(list) = 1 THEN Head(list)
  ELSE Head(list) \o sep \o Join(Tail(list), sep)

\* (args?.daysAhead as number) || 14
DaysAheadOf(arg) == IF TruthyNum(arg) THEN arg ELSE 14

\* assignment.title || assignment.name || assignment.assignment?.name
NameField(item) ==
  IF Truthy(item.title) THEN item.title
  ELSE IF Truthy(item.name) THEN item.name
  ELSE item.assignment.name

\* assignment.title || assignment.name || 'Unknown' (the catch block)
ItemName(item) ==
  IF Truthy(item.title) THEN item.title
  ELSE IF Truthy(item.name) THEN item.name
  ELSE "Unknown"

\* assignment.due_at || assignment.assignment?.due_at
DueAtField(item) == OrDate(item.due_at, item.assignment.due_at)

\* the glyph and label of a kind; glyphs are written as ASCII names
TypeInfo(type) ==
  CASE type = "assignment" -> [emoji |-> "[books]", label |-> "Canvas Assignment"]
    [] type = "quiz" -> [emoji |-> "[memo]", label |-> "Canvas Quiz"]
    [] type = "discussion" -> [emoji |-> "[speech]", label |-> "Canvas Discussion"]
    [] OTHER -> [emoji |-> "[calendar]", label |-> "Calendar Event"]

\* assignment.points_possible || assignment.assignment?.points_possible || 'N/A'
PointsText(item) ==
  IF TruthyNum(item.points_possible) THEN ToString(item.points_possible)
  ELSE IF TruthyNum(item.assignment.points_possible)
       THEN ToString(item.assignment.points_possible)
  ELSE "N/A"

\* the window test with the lower boundary admitted
InWindowFromZero(daysDiff, window) == daysDiff <= window /\ daysDiff >= 0

\* the window test of the loop
InWindow(daysDiff, window) == daysDiff <= window /\ daysDiff > 0

\* a payload whose end is its start and that has the day-before reminder only
EventPayloadNoEnd(item, dueEST, endEST) ==
  [summary |-> TypeInfo(item.type).emoji \o " " \o NameField(item),
   description |-> TypeInfo(item.type).label,
   start |-> [dateTime |-> dueEST.datetime, timeZone |-> "America/New_York"],
   end |-> [dateTime |-> dueEST.datetime, timeZone |-> "America/New_York"],
   reminders |-> [useDefault |-> FALSE,
                  overrides |-> <<[method |-> "popup", minutes |-> 24 * 60]>>],
   item |-> item.id]

\* the event payload the loop builds for an admitted item
EventPayload(item, dueEST, endEST) ==
  LET itemInfo == TypeInfo(item.type)
  IN [summary |-> itemInfo.emoji \o " " \o NameField(item),
      description |->
        itemInfo.label \o "\n\nDue: " \o dueEST.readable \o " EST\nPoints: "
          \o PointsText(item) \o "\nCourse: "
          \o (IF Truthy(item.context_name) THEN item.context_name ELSE "N/A")
          \o "\n\nLink: "
          \o (IF Truthy(item.html_url) THEN item.html_url
              ELSE IF Truthy(item.assignment.html_url) THEN item.assignment.html_url
              ELSE ""),
      start |-> [dateTime |-> dueEST.datetime, timeZone |-> "America/New_York"],
      end |-> [dateTime |-> endEST.datetime, timeZone |-> "America/New_York"],
      reminders |-> [useDefault |-> FALSE,
                     overrides |-> <<[method |-> "popup", minutes |-> 24 * 60],
                                     [method |-> "popup", minutes |-> 60]>>],
      item |-> item.id]

\* the synced message of an item
SyncMessage(item, dueEST) ==
  NameField(item) \o " (" \o TypeInfo(item.type).label \o ") - Due: " \o dueEST.readable

\* the skip reason of the catch block of the loop
ErrorReason(item, errorMessage) == ItemName(item) \o " (error: " \o errorMessage \o ")"

\* One pass of the loop body up to its first suspension.  kind is "skip"
\* (the item is skipped with reason text, without a call), "throw" (a fault
\* with message text reaches the catch block before any call) or "create"
\* (createEvent is invoked with event).
LoopBody(item, now, window) ==
  LET out(kind, cause, text, valid, daysDiff, event, message) ==
        [kind |-> kind, cause |-> cause, text |-> text, valid |-> valid,
         daysDiff |-> daysDiff, event |-> event, message |-> message]
      Converted(nameField, daysDiff, dueEST, endEST) ==
        IF ~dueEST.ok
        THEN out("skip", "date conversion failed",
                 nameField \o " (date conversion failed)", TRUE, daysDiff, NoEvent, "")
        ELSE IF ~endEST.ok
        THEN out("skip", "end date conversion failed",
                 nameField \o " (end date conversion failed)",
                 TRUE, daysDiff, NoEvent, "")
        ELSE out("create", "", "", TRUE, daysDiff,
                 EventPayload(item, dueEST, endEST), SyncMessage(item, dueEST))
      Valid(dueAtField, nameField, dueDateUTC, daysDiff) ==
        IF InWindow(daysDiff, window)
        THEN Converted(nameField, daysDiff, convertToEST(dueAtField),
                       convertToEST(ToISOString(DateOf(dueDateUTC.time + HourLen))))
        ELSE out("skip", "window",
                 nameField \o " (outside " \o ToString(window) \o " day window - "
                   \o ToString(daysDiff) \o " days away)",
                 TRUE, daysDiff, NoEvent, "")
      Dated(dueAtField, nameField, dueDateUTC) ==
        IF ~dueDateUTC.valid
        THEN \* dueDateUTC.toISOString() in the trace line throws a RangeError
             out("throw", "error", "Invalid time value", FALSE, 0, NoEvent, "")
        ELSE Valid(dueAtField, nameField, dueDateUTC,
                   Ceil(dueDateUTC.time - now, DayLen))
      Iteration(dueAtField, nameField) ==
        IF ~TruthyDate(dueAtField)
        THEN out("skip", "no due date",
                 (IF Truthy(nameField) THEN nameField ELSE "Unknown")
                   \o " (no due date - checked due_at and assignment.due_at)",
                 FALSE, 0, NoEvent, "")
        ELSE Dated(dueAtField, nameField, DateParse(dueAtField))
  IN Iteration(DueAtField(item), NameField(item))

\* the text of the summary the handler returns
ResultText(syncedList, skippedList) ==
  "Successfully synced " \o ToString(Len(syncedList))
    \o " item(s) to Google Calendar (EST timezone):\n\n"
    \o (IF Len(syncedList) > 0 THEN Join(syncedList, "\n") ELSE "")
    \o (IF Len(skippedList) > 0
        THEN "\n\nSkipped " \o ToString(Len(skippedList)) \o " item(s):\n"
               \o Join(skippedList, "\n")
        ELSE "")

\* the response of a sync_to_calendar invocation that ran its loop
Summary(list, window, syncedList, skippedList, log) ==
  [isError |-> FALSE, text |-> ResultText(syncedList, skippedList),
   daysAhead |-> window, fetched |-> list,
   synced |-> syncedList, skipped |-> skippedList, decisions |-> log]

\* a catch block that returns the message without the failure marker
ErrorResultUnmarked(message) ==
  [isError |-> FALSE, text |-> "Error: " \o message,
   daysAhead |-> 0, fetched |-> <<>>,
   synced |-> <<>>, skipped |-> <<>>, decisions |-> <<>>]

\* the response of the catch block of the request handler
ErrorResult(message) ==
  [isError |-> TRUE, text |-> "Error: " \o message,
   daysAhead |-> 0, fetched |-> <<>>,
   synced |-> <<>>, skipped |-> <<>>, decisions |-> <<>>]

\* what the loop recorded for one item
Decision(item, body, created, verdict, cause) ==
  [item |-> item.id, valid |-> body.valid, daysDiff |-> body.daysDiff, now |-> clock,
   createInvoked |-> created, verdict |-> verdict, cause |-> cause]

\* the locals of the handler are gone once it has returned
ResetLocals ==
  /\ daysAhead' = 0
  /\ courseIdx' = 0
  /\ allAssignments' = <<>>
  /\ assignments' = <<>>
  /\ idx' = 0
  /\ synced' = <<>>
  /\ skipped' = <<>>
  /\ decisions' = <<>>
  /\ pending' = NoPending

\* the handler returns result
Return(result) ==
  /\ pc' = "idle"
  /\ results' = <<result>>
  /\ runs' = runs + 1
  /\ ResetLocals

\* the loop goes on to the next item, or the handler returns the summary
Continue(synced2, skipped2, decisions2) ==
  IF idx < Len(assignments)
  THEN /\ idx' = idx + 1
       /\ pc' = "loop"
       /\ synced' = synced2
       /\ skipped' = skipped2
       /\ decisions' = decisions2
       /\ pending' = NoPending
       /\ UNCHANGED <<daysAhead, courseIdx, allAssignments, assignments, results, runs>>
  ELSE Return(Summary(assignments, daysAhead, synced2, skipped2, decisions2))

(***************************************************************************)
(* Actions                                                                 *)
(***************************************************************************)
\* CANVAS_BASE_URL of the environment
Domain == "https://canvas.test"

\* the message of the fault CanvasClient.fetch throws
FetchError(outcome, endpoint) ==
  IF outcome = "timeout"
  THEN "Canvas API timeout after " \o ToString(30000) \o "ms for "
         \o Domain \o "/api/v1" \o endpoint
  ELSE "Canvas API error: 500 Internal Server Error"

\* an upstream call completes; failed says whether it counts as a fault
Fault(failed) ==
  IF failed THEN faults < MaxFaults /\ faults' = faults + 1 ELSE faults' = faults

\* a caller invokes sync_to_calendar; the handler runs up to the courses fetch
CallSync(arg) ==
  /\ pc = "idle"
  /\ runs < MaxRuns
  /\ daysAhead' = DaysAheadOf(arg)
  /\ pc' = "awaitCourses"
  /\ results' = <<>>
  /\ request' = Request("sync_to_calendar", [NoArgs EXCEPT !.daysAhead = arg])
  /\ UNCHANGED <<sent, fetchCall, hourCycle, utcDateString, converted, upstream, clock, ticks, courseIdx, allAssignments, assignments, idx,
                 synced, skipped, decisions, pending, accessToken, refreshToken,
                 calendar, runs, faults>>

\* the fetch of the courses completes
CoursesResponse(outcome) ==
  /\ pc = "awaitCourses"
  /\ Fault(outcome # "ok")
  /\ IF outcome = "ok"
     THEN IF Len(upstream) = 0
          THEN Return(Summary(FilterAndTransform(<<>>), daysAhead, <<>>, <<>>, <<>>))
          ELSE /\ courseIdx' = 1
               /\ pc' = "awaitAssignments"
               /\ UNCHANGED <<daysAhead, allAssignments, assignments, idx, synced,
                              skipped, decisions, pending, results, runs>>
     ELSE Return(ErrorResult(FetchError(outcome, "/courses?enrollment_state=active")))
  /\ UNCHANGED <<sent, fetchCall, request, hourCycle, utcDateString, converted, upstream, clock, ticks, accessToken, refreshToken, calendar>>

\* a catch block that returns what the earlier courses gave
CourseFaultPartial(course, errorMsg) ==
  Return(Summary(FilterAndTransform(allAssignments), daysAhead, <<>>, <<>>, <<>>))

\* a catch block that skips the failing course and goes on with the rest
CourseFaultSkipped(course, errorMsg) ==
  IF courseIdx < Len(upstream)
  THEN /\ courseIdx' = courseIdx + 1
       /\ UNCHANGED <<pc, daysAhead, allAssignments, assignments, idx, synced, skipped,
                      decisions, pending, results, runs>>
  ELSE IF Len(FilterAndTransform(allAssignments)) = 0
  THEN Return(Summary(FilterAndTransform(allAssignments), daysAhead, <<>>, <<>>, <<>>))
  ELSE /\ assignments' = FilterAndTransform(allAssignments)
       /\ idx' = 1
       /\ pc' = "loop"
       /\ UNCHANGED <<daysAhead, courseIdx, allAssignments, synced, skipped,
                      decisions, pending, results, runs>>

\* the catch block of the course loop: the fault is thrown again, the
\* handler's catch block returns it
CourseFault(course, errorMsg) ==
  Return(ErrorResult("Failed to fetch assignments for course \""
                       \o course.name \o "\": " \o errorMsg))

\* the fetch of the assignments of course courseIdx completes
AssignmentsResponse(outcome) ==
  /\ pc = "awaitAssignments"
  /\ Fault(outcome # "ok")
  /\ LET course == upstream[courseIdx]
         endpoint == "/courses/" \o ToString(course.id) \o "/assignments"
         all2 == allAssignments \o Stamp(course.assignments, course)
         transformed == FilterAndTransform(all2)
     IN IF outcome = "ok"
        THEN IF courseIdx < Len(upstream)
             THEN /\ courseIdx' = courseIdx + 1
                  /\ allAssignments' = all2
                  /\ UNCHANGED <<pc, daysAhead, assignments, idx, synced, skipped,
                                 decisions, pending, results, runs>>
             ELSE IF Len(transformed) = 0
             THEN Return(Summary(transformed, daysAhead, <<>>, <<>>, <<>>))
             ELSE /\ assignments' = transformed
                  /\ idx' = 1
                  /\ pc' = "loop"
                  /\ UNCHANGED <<daysAhead, courseIdx, allAssignments, synced, skipped,
                                 decisions, pending, results, runs>>
        ELSE CourseFault(course, FetchError(outcome, endpoint))
  /\ UNCHANGED <<sent, fetchCall, request, hourCycle, utcDateString, converted, upstream, clock, ticks, accessToken, refreshToken, calendar>>

\* a loop that goes on while the create of its last entry is still open
Unsettled(log, verdict, cause) == log

\* decisions with the verdict of its last entry settled
Settle(log, verdict, cause) ==
  [log EXCEPT ![Len(log)].verdict = verdict, ![Len(log)].cause = cause]

\* a catch block that records nothing for the item
CatchItemSilent(item, errorMessage, log) == Continue(synced, skipped, log)

\* a catch block that gives the whole invocation up
CatchItemAbort(item, errorMessage, log) == Return(ErrorResult(errorMessage))

\* the catch block of the loop: the fault becomes a skip reason, the loop goes on
CatchItem(item, errorMessage, log) ==
  Continue(synced, Append(skipped, ErrorReason(item, errorMessage)), log)

\* a gateway that takes no token for cached
Uncached(token) == FALSE

\* getAccessToken returns the cached token when there is one
Cached(token) == Truthy(token)

\* a POST that is dropped when the calendar holds the same event
CreatedOnce(cal, event) ==
  IF \E i \in 1..Len(cal) : cal[i] = event THEN cal ELSE Append(cal, event)

\* the calendar after a successful POST of event
Created(cal, event) == Append(cal, event)

\* the loop body runs for item idx, up to its first suspension
SyncItem ==
  /\ pc = "loop"
  /\ LET noToken == "No refresh token available. Please authenticate first using get_google_auth_url and set_google_auth_code tools."
         Iterate(item, body) ==
           IF body.kind = "throw"
           THEN CatchItem(item, body.text,
                          Append(decisions,
                                 Decision(item, body, FALSE, "skipped", body.cause)))
           ELSE IF body.kind = "skip"
           THEN Continue(synced, Append(skipped, body.text),
                         Append(decisions,
                                Decision(item, body, FALSE, "skipped", body.cause)))
           ELSE IF Cached(accessToken) \/ Truthy(refreshToken)
           THEN /\ pc' = IF Cached(accessToken) THEN "awaitCreate" ELSE "awaitToken"
                /\ pending' = [event |-> body.event, message |-> body.message]
                /\ decisions' = Append(decisions,
                                       Decision(item, body, TRUE, "pending", ""))
                /\ UNCHANGED <<daysAhead, courseIdx, allAssignments, assignments, idx,
                               synced, skipped, results, runs>>
           ELSE CatchItem(item, noToken,
                          Append(decisions,
                                 Decision(item, body, TRUE, "skipped", "error")))
     IN Iterate(assignments[idx], LoopBody(assignments[idx], clock, daysAhead))
  /\ sent' = IF LoopBody(assignments[idx], clock, daysAhead).kind = "create"
                   /\ ~Cached(accessToken) /\ Truthy(refreshToken)
              THEN refreshToken ELSE sent
  /\ UNCHANGED <<fetchCall, request, hourCycle, utcDateString, converted, upstream, clock, ticks, accessToken, refreshToken, calendar, faults>>

\* getAccessToken: the token endpoint answers the refresh
TokenResponse(resp) ==
  /\ pc = "awaitToken"
  /\ Fault(~(resp.ok /\ Truthy(resp.access_token)))
  /\ LET item == assignments[idx]
     IN IF resp.ok /\ Truthy(resp.access_token)
        THEN /\ accessToken' = resp.access_token
             /\ pc' = "awaitCreate"
             /\ UNCHANGED <<daysAhead, courseIdx, allAssignments, assignments, idx,
                            synced, skipped, decisions, pending, results, runs>>
        ELSE IF resp.ok
        THEN /\ accessToken' = resp.access_token
             /\ CatchItem(item, "Failed to obtain access token from Google",
                          Settle(decisions, "skipped", "error"))
        ELSE /\ accessToken' = accessToken
             /\ CatchItem(item, "Failed to refresh access token: " \o resp.body,
                          Settle(decisions, "skipped", "error"))
  /\ UNCHANGED <<sent, fetchCall, request, hourCycle, utcDateString, converted, upstream, clock, ticks, refreshToken, calendar>>

\* createEvent: the calendar API answers the POST
CreateResponse(status) ==
  /\ pc = "awaitCreate"
  /\ Fault(~(status >= 200 /\ status < 300))
  /\ LET item == assignments[idx]
     IN IF status >= 200 /\ status < 300
        THEN /\ calendar' = Created(calendar, pending.event)
             /\ Continue(Append(synced, pending.message), skipped,
                         Settle(decisions, "synced", ""))
        ELSE /\ calendar' = calendar
             /\ CatchItem(item, "Google Calendar API error: " \o ToString(status),
                          Settle(decisions, "skipped", "error"))
  /\ UNCHANGED <<sent, fetchCall, request, hourCycle, utcDateString, converted, upstream, clock, ticks, accessToken, refreshToken>>

\* time passes
Tick(step) ==
  /\ ticks < MaxTicks
  /\ clock' = clock + step
  /\ ticks' = ticks + 1
  /\ UNCHANGED <<sent, fetchCall, request, hourCycle, utcDateString, converted, upstream, pc, daysAhead, courseIdx, allAssignments, assignments, idx,
                 synced, skipped, decisions, pending, accessToken, refreshToken,
                 calendar, results, runs, faults>>

Next ==
  \/ \E arg \in DaysAheadArgs : CallSync(arg)
  \/ \E outcome \in FetchOutcomes : CoursesResponse(outcome)
  \/ \E outcome \in FetchOutcomes : AssignmentsResponse(outcome)
  \/ SyncItem
  \/ \E resp \in TokenResponses : TokenResponse(resp)
  \/ \E status \in CalendarStatuses : CreateResponse(status)
  \/ \E step \in TickSteps : Tick(step)

Spec == Init /\ [][Next]_vars

(***************************************************************************)
(* The same server over an LMS that serves one course with one raw record, *)
(* the record drawn from every combination of the fields the type          *)
(* detection and the filter read                                           *)
(***************************************************************************)
RawNested ==
  {NoAssignment,
   NestedRecord(TRUE, Due1, "Inner", NoNumber, {"online_upload"}, FALSE),
   NestedRecord(TRUE, NoDate, Undefined, NoNumber, {}, FALSE)}

RawSubmissionTypes ==
  {{}, {"online_upload"}, {"online_quiz"}, {"discussion_topic"},
   {"online_quiz", "discussion_topic"}}

RawSpace ==
  {RawRecord(name, published, due, quiz, isQuiz, types, topic, type, 10, nested) :
     name \in {"Item", Undefined}, published \in BOOLEAN, due \in {NoDate, Due1}, quiz \in {NoNumber, 7},
     isQuiz \in BOOLEAN, types \in RawSubmissionTypes, topic \in BOOLEAN,
     type \in {Undefined, "assignment"}, nested \in RawNested}

InitRaw ==
  /\ upstream \in {<<[id |-> 1, name |-> "Course1",
                       assignments |-> <<[raw EXCEPT !.id = 11]>>]>> : raw \in RawSpace}
  /\ clock = Clock0
  /\ ticks = 0
  /\ pc = "idle"
  /\ daysAhead = 0
  /\ courseIdx = 0
  /\ allAssignments = <<>>
  /\ assignments = <<>>
  /\ idx = 0
  /\ synced = <<>>
  /\ skipped = <<>>
  /\ decisions = <<>>
  /\ pending = NoPending
  /\ accessToken = Undefined
  /\ refreshToken = "rt0"
  /\ calendar = <<>>
  /\ results = <<>>
  /\ runs = 0
  /\ faults = 0
  /\ hourCycle \in HourCycles
  /\ utcDateString = NoDate
  /\ converted = NotConverted
  /\ request = NoRequest
  /\ fetchCall = NoFetch
  /\ sent = ""

SpecRaw == InitRaw /\ [][Next]_vars
(***************************************************************************)
(* convertToEST on its own: a caller passes it one string after another    *)
(***************************************************************************)
ConvertYears == {2024, 2025}
ConvertMonths == {1, 3, 7, 11, 12}
ConvertDays == {1, 2, 8, 9, 28}
ConvertHours == {0, 4, 5, 6, 7, 23}
ConvertMinSec == {<<0, 0>>, <<59, 59>>}

\* the strings passed to convertToEST
ConvertInputs ==
  {NoDate, NullDate, EmptyDate, GarbageDate}
    \cup {Iso(y, mo, d, h, ms[1], ms[2]) :
            y \in ConvertYears, mo \in ConvertMonths, d \in ConvertDays,
            h \in ConvertHours, ms \in ConvertMinSec}

InitConvert ==
  /\ upstream = <<>>
  /\ clock = Clock0
  /\ ticks = 0
  /\ pc = "idle"
  /\ daysAhead = 0
  /\ courseIdx = 0
  /\ allAssignments = <<>>
  /\ assignments = <<>>
  /\ idx = 0
  /\ synced = <<>>
  /\ skipped = <<>>
  /\ decisions = <<>>
  /\ pending = NoPending
  /\ accessToken = Undefined
  /\ refreshToken = ""
  /\ calendar = <<>>
  /\ results = <<>>
  /\ runs = 0
  /\ faults = 0
  /\ hourCycle \in HourCycles
  /\ utcDateString = NoDate
  /\ converted = NotConverted
  /\ request = NoRequest
  /\ fetchCall = NoFetch
  /\ sent = ""

\* convertToEST is called with s and returns
Convert(s) ==
  /\ utcDateString' = s
  /\ converted' = convertToEST(s)
  /\ UNCHANGED <<upstream, clock, ticks, pc, daysAhead, courseIdx, allAssignments,
                 assignments, idx, synced, skipped, decisions, pending, accessToken,
                 refreshToken, calendar, results, runs, faults, hourCycle, request, fetchCall, sent>>

NextConvert == \E s \in ConvertInputs : Convert(s)

SpecConvert == InitConvert /\ [][NextConvert]_vars

(***************************************************************************)
(* The request handler over all its tools: the calendar tools call the     *)
(* gateway once and return, next to sync_to_calendar over one course       *)
(***************************************************************************)
\* the cases of the switch on the tool name
ToolNames ==
  {"get_google_auth_url", "set_google_auth_code", "create_calendar_event",
   "list_calendar_events", "update_calendar_event", "delete_calendar_event",
   "get_canvas_assignments", "sync_to_calendar"}

\* the tools that call one calendar operation of the gateway
CalendarTools ==
  {"create_calendar_event", "list_calendar_events", "update_calendar_event",
   "delete_calendar_event"}

\* the invocations a caller makes of the tools other than the two Canvas ones
ToolRequests ==
  {Request("get_google_auth_url", NoArgs), Request("no_such_tool", NoArgs),
   Request("list_calendar_events", NoArgs)}
    \cup {Request("set_google_auth_code", [NoArgs EXCEPT !.code = c]) :
            c \in {Undefined, "", "code1"}}
    \cup {Request("create_calendar_event",
                  [NoArgs EXCEPT !.title = t, !.startTime = st, !.endTime = en]) :
            t \in {Undefined, "Exam"}, st \in {Undefined, "2025-11-10T09:00:00"},
            en \in {Undefined, "2025-11-10T10:00:00"}}
    \cup {Request("update_calendar_event", [NoArgs EXCEPT !.eventId = id, !.title = t]) :
            id \in {Undefined, "ev1"}, t \in {Undefined, "Moved"}}
    \cup {Request("delete_calendar_event", [NoArgs EXCEPT !.eventId = id]) :
            id \in {Undefined, "ev1"}}

\* responses of the OAuth token endpoint to an authorization code
ExchangeResponses ==
  {[ok |-> TRUE, access_token |-> "at2", refresh_token |-> "rt1", body |-> ""],
   [ok |-> TRUE, access_token |-> "at2", refresh_token |-> Undefined, body |-> ""],
   [ok |-> FALSE, access_token |-> Undefined, refresh_token |-> Undefined,
    body |-> "invalid_grant"]}

\* responses of the calendar API to the call of a calendar tool
ApiResponses ==
  {[status |-> 200, body |-> ""], [status |-> 401, body |-> "Unauthorized"],
   [status |-> 404, body |-> "Not Found"]}

\* id and htmlLink of the event resource the calendar API returns
CreatedId == "ev1"
HtmlLink == "https://calendar.test/ev1"

\* getAuthUrl() of the gateway
AuthUrl == "https://accounts.google.com/o/oauth2/v2/auth?client_id=cid"

\* the text get_google_auth_url returns
AuthUrlText ==
  "Please visit this URL to authorize Google Calendar access:\n\n" \o AuthUrl
    \o "\n\nAfter authorizing, you'll be redirected to a URL with a 'code' parameter. Copy that code and use the 'set_google_auth_code' tool to complete the authentication."

\* the text set_google_auth_code returns after the exchange
AuthenticatedText(token) ==
  "Authentication successful!\n\nIMPORTANT: Save this refresh token to your configuration:\n\nRefresh Token: "
    \o token
    \o "\n\nAdd this to your Claude Desktop config (claude_desktop_config.json) under the canvas-calendar-bridge env section:\n\"GOOGLE_REFRESH_TOKEN\": \""
    \o token
    \o "\"\n\nThen restart Claude Desktop for the changes to take effect."

\* a validation that looks at the title only
RequiredArgumentTitleOnly(req) ==
  LET Check(name, args) ==
        IF name = "create_calendar_event" /\ ~Truthy(args.title)
        THEN "title, startTime, and endTime are required"
        ELSE ""
  IN Check(req.name, req.arguments)

\* the message of the fault the case of req throws for a missing required
\* argument, "" when it throws none
RequiredArgument(req) ==
  LET Check(name, args) ==
        IF name = "set_google_auth_code" /\ ~Truthy(args.code)
        THEN "Authorization code is required"
        ELSE IF name = "create_calendar_event"
                  /\ (~Truthy(args.title) \/ ~Truthy(args.startTime)
                        \/ ~Truthy(args.endTime))
        THEN "title, startTime, and endTime are required"
        ELSE IF name \in {"update_calendar_event", "delete_calendar_event"}
                  /\ ~Truthy(args.eventId)
        THEN "eventId is required"
        ELSE ""
  IN Check(req.name, req.arguments)

\* the message of the fault the switch throws before any call of the
\* gateway, "" when it throws none
DispatchFault(req) ==
  IF req.name \notin ToolNames THEN "Unknown tool: " \o req.name
  ELSE RequiredArgument(req)

\* a || b on strings
OrString(a, b) == IF Truthy(a) THEN a ELSE b

\* the event create_calendar_event builds from its arguments
ToolEvent(args) ==
  [summary |-> args.title,
   description |-> OrString(args.description, ""),
   start |-> [dateTime |-> args.startTime,
              timeZone |-> OrString(args.timezone, "America/New_York")],
   end |-> [dateTime |-> args.endTime,
            timeZone |-> OrString(args.timezone, "America/New_York")],
   reminders |-> [useDefault |-> TRUE, overrides |-> <<>>],
   item |-> 0]

\* the event the calendar holds after a PATCH with the updates
\* update_calendar_event builds from its arguments
Updated(event, args) ==
  [event EXCEPT
     !.summary = IF Truthy(args.title) THEN args.title ELSE @,
     !.description = IF args.description # Undefined THEN args.description ELSE @,
     !.start = IF Truthy(args.startTime)
               THEN [dateTime |-> args.startTime,
                     timeZone |-> OrString(args.timezone, "America/New_York")]
               ELSE @,
     !.end = IF Truthy(args.endTime)
             THEN [dateTime |-> args.endTime,
                   timeZone |-> OrString(args.timezone, "America/New_York")]
             ELSE @]

\* cal without its i-th event
Removed(cal, i) == SubSeq(cal, 1, i - 1) \o SubSeq(cal, i + 1, Len(cal))

\* a || b on numbers
OrNum(a, b) == IF TruthyNum(a) THEN a ELSE b

\* the lines of list_calendar_events for the events of items from i on
\* (the bullet U+2022 is written *; the ID and Link lines carry the
\* calendar's ids, which are not modelled)
RECURSIVE EventList(_, _)
EventList(items, i) ==
  IF i > Len(items) THEN ""
  ELSE "* " \o OrString(items[i].summary, "Untitled")
         \o "\n  Start: " \o items[i].start.dateTime
         \o "\n  End: " \o items[i].end.dateTime
         \o (IF i < Len(items) THEN "\n\n" ELSE "")
         \o EventList(items, i + 1)

\* the text list_calendar_events returns for the items the calendar gave
ListText(items, args) ==
  IF Len(items) = 0
  THEN "No upcoming events found in the next "
         \o ToString(OrNum(args.daysAhead, 7)) \o " days."
  ELSE "Found " \o ToString(Len(items)) \o " upcoming event(s) in the next "
         \o ToString(OrNum(args.daysAhead, 7)) \o " days:\n\n" \o EventList(items, 1)

\* a response without the failure marker
ToolResult(text) ==
  [isError |-> FALSE, text |-> text,
   daysAhead |-> 0, fetched |-> <<>>,
   synced |-> <<>>, skipped |-> <<>>, decisions |-> <<>>]

\* the message of the fault a calendar operation of the gateway throws for a
\* non-2xx response
ApiFault(name, resp) ==
  IF name = "create_calendar_event"
  THEN "Google Calendar API error: " \o ToString(resp.status)
  ELSE "Google Calendar API error: " \o ToString(resp.status) \o " - " \o resp.body

\* the message of the fault getAccessToken throws without a refresh token
NoRefreshToken == "No refresh token available. Please authenticate first using get_google_auth_url and set_google_auth_code tools."

\* a caller invokes one of the calendar tools; the handler runs up to its
\* first network call, or returns
CallTool(req) ==
  /\ pc = "idle"
  /\ runs < MaxRuns
  /\ request' = req
  /\ IF DispatchFault(req) # ""
     THEN Return(ErrorResult(DispatchFault(req)))
     ELSE IF req.name = "get_google_auth_url"
     THEN Return(ToolResult(AuthUrlText))
     ELSE IF req.name = "set_google_auth_code"
     THEN /\ pc' = "toolExchange"
          /\ results' = <<>>
          /\ UNCHANGED <<daysAhead, courseIdx, allAssignments, assignments, idx,
                         synced, skipped, decisions, pending, runs>>
     ELSE IF Cached(accessToken) \/ Truthy(refreshToken)
     THEN /\ pc' = IF Cached(accessToken) THEN "toolApi" ELSE "toolToken"
          /\ results' = <<>>
          /\ UNCHANGED <<daysAhead, courseIdx, allAssignments, assignments, idx,
                         synced, skipped, decisions, pending, runs>>
     ELSE Return(ErrorResult(NoRefreshToken))
  /\ sent' = IF DispatchFault(req) = "" /\ req.name \in CalendarTools
                   /\ ~Cached(accessToken) /\ Truthy(refreshToken)
              THEN refreshToken ELSE sent
  /\ UNCHANGED <<fetchCall, hourCycle, utcDateString, converted, upstream, clock, ticks,
                 accessToken, refreshToken, calendar, faults>>

\* an exchangeCodeForTokens that stores what the answer holds before it looks
\* at the status
ExchangeResponseEager(resp) ==
  /\ pc = "toolExchange"
  /\ Fault(~resp.ok)
  /\ accessToken' = resp.access_token
  /\ refreshToken' = OrString(resp.refresh_token, refreshToken)
  /\ IF resp.ok
     THEN Return(ToolResult(AuthenticatedText(resp.refresh_token)))
     ELSE Return(ErrorResult("Failed to exchange code for tokens: " \o resp.body))
  /\ UNCHANGED <<sent, fetchCall, request, hourCycle, utcDateString, converted, upstream,
                 clock, ticks, calendar>>

\* exchangeCodeForTokens: the token endpoint answers the authorization code
ExchangeResponse(resp) ==
  /\ pc = "toolExchange"
  /\ Fault(~resp.ok)
  /\ IF resp.ok
     THEN /\ accessToken' = resp.access_token
          /\ refreshToken' = OrString(resp.refresh_token, refreshToken)
          /\ Return(ToolResult(AuthenticatedText(resp.refresh_token)))
     ELSE /\ UNCHANGED <<accessToken, refreshToken>>
          /\ Return(ErrorResult("Failed to exchange code for tokens: " \o resp.body))
  /\ UNCHANGED <<sent, fetchCall, request, hourCycle, utcDateString, converted, upstream, clock, ticks,
                 calendar>>

\* getAccessToken of a calendar tool: the token endpoint answers the refresh
ToolTokenResponse(resp) ==
  /\ pc = "toolToken"
  /\ Fault(~(resp.ok /\ Truthy(resp.access_token)))
  /\ IF resp.ok /\ Truthy(resp.access_token)
     THEN /\ accessToken' = resp.access_token
          /\ pc' = "toolApi"
          /\ UNCHANGED <<daysAhead, courseIdx, allAssignments, assignments, idx,
                         synced, skipped, decisions, pending, results, runs>>
     ELSE IF resp.ok
     THEN /\ accessToken' = resp.access_token
          /\ Return(ErrorResult("Failed to obtain access token from Google"))
     ELSE /\ accessToken' = accessToken
          /\ Return(ErrorResult("Failed to refresh access token: " \o resp.body))
  /\ UNCHANGED <<sent, fetchCall, request, hourCycle, utcDateString, converted, upstream, clock, ticks,
                 refreshToken, calendar>>

\* the calendar API answers the call of a calendar tool; a PATCH or DELETE
\* that succeeds acts on the event i the calendar knows under the given id
\* (i = 0 for the answers that act on no event)
ApiResponse(resp, i) ==
  /\ pc = "toolApi"
  /\ Fault(~(resp.status >= 200 /\ resp.status < 300))
  /\ LET Answer(name, args) ==
           IF ~(resp.status >= 200 /\ resp.status < 300)
           THEN /\ i = 0
                /\ calendar' = calendar
                /\ Return(ErrorResult(ApiFault(name, resp)))
           ELSE IF name = "create_calendar_event"
           THEN /\ i = 0
                /\ calendar' = Created(calendar, ToolEvent(args))
                /\ Return(ToolResult("Calendar event created successfully!\n\nTitle: "
                                       \o args.title \o "\nStart: " \o args.startTime
                                       \o "\nEnd: " \o args.endTime \o "\nEvent ID: "
                                       \o CreatedId \o "\nLink: " \o HtmlLink))
           ELSE IF name = "list_calendar_events"
           THEN /\ i = 0
                /\ calendar' = calendar
                /\ Return(ToolResult(
                     ListText(SubSeq(calendar, 1,
                                     IF Len(calendar) < OrNum(args.maxResults, 10)
                                     THEN Len(calendar)
                                     ELSE OrNum(args.maxResults, 10)), args)))
           ELSE IF name = "update_calendar_event"
           THEN /\ i \in 1..Len(calendar)
                /\ calendar' = [calendar EXCEPT ![i] = Updated(@, args)]
                /\ Return(ToolResult("Event updated successfully!\n\nEvent ID: "
                                       \o args.eventId \o "\nTitle: "
                                       \o Updated(calendar[i], args).summary
                                       \o "\nLink: " \o HtmlLink))
           ELSE /\ i \in 1..Len(calendar)
                /\ calendar' = Removed(calendar, i)
                /\ Return(ToolResult("Event deleted successfully!\n\nEvent ID: "
                                       \o args.eventId))
     IN Answer(request.name, request.arguments)
  /\ UNCHANGED <<sent, fetchCall, request, hourCycle, utcDateString, converted, upstream, clock, ticks,
                 accessToken, refreshToken>>

\* the LMS of this specification: one course with two dated records
ToolsUpstream == CourseList(1, 2, 0)

InitTools ==
  /\ upstream = ToolsUpstream
  /\ clock = Clock0
  /\ ticks = 0
  /\ pc = "idle"
  /\ daysAhead = 0
  /\ courseIdx = 0
  /\ allAssignments = <<>>
  /\ assignments = <<>>
  /\ idx = 0
  /\ synced = <<>>
  /\ skipped = <<>>
  /\ decisions = <<>>
  /\ pending = NoPending
  /\ accessToken = Undefined
  /\ refreshToken \in {"", "rt0"}
  /\ calendar = <<>>
  /\ results = <<>>
  /\ runs = 0
  /\ faults = 0
  /\ hourCycle \in HourCycles
  /\ utcDateString = NoDate
  /\ converted = NotConverted
  /\ request = NoRequest
  /\ fetchCall = NoFetch
  /\ sent = ""

NextTools ==
  \/ \E req \in ToolRequests : CallTool(req)
  \/ \E resp \in ExchangeResponses : ExchangeResponse(resp)
  \/ \E resp \in TokenResponses : ToolTokenResponse(resp)
  \/ \E resp \in ApiResponses : \E i \in 0..Len(calendar) : ApiResponse(resp, i)
  \/ Next

SpecTools == InitTools /\ [][NextTools]_vars

(***************************************************************************)
(* CanvasClient.fetch on its own: one request at a time, with the timer    *)
(* that aborts it, the time that passes and what the network delivers      *)
(***************************************************************************)
\* how many steps of time a request is followed for
MaxWait == 8

\* the time that passes in one step, in ms
TimeStep == 5000

\* the default of the timeoutMs parameter, which no caller overrides
DefaultTimeout == 30000

\* the endpoints getUpcomingAssignments fetches
FetchEndpoints ==
  {"/courses?enrollment_state=active"}
    \cup {"/courses/" \o ToString(k) \o "/assignments" : k \in 1..MaxCourses}

\* what the network delivers for a request: a 2xx response, a non-2xx
\* response, or a rejection of the fetch promise
FetchArrivals == {"ok", "http", "network"}

\* the message of the fault fetch ends with
FetchFault(outcome, endpoint) ==
  IF outcome = "network" THEN "fetch failed" ELSE FetchError(outcome, endpoint)

\* a fetch that leaves its timer armed
KeepTimeout(call) == call

\* clearTimeout(timeoutId)
ClearTimeout(call) == [call EXCEPT !.timer = FALSE]

\* the call returns the data or throws the fault of outcome
Settled(call, outcome) ==
  [call EXCEPT !.phase = "settled", !.outcome = outcome,
               !.error = IF outcome = "ok" THEN "" ELSE FetchFault(outcome, call.endpoint)]

\* fetch(endpoint) is called: the timer is armed and the request goes out
FetchStart(endpoint) ==
  /\ fetchCall.phase # "inflight"
  /\ fetchCall' = [phase |-> "inflight", endpoint |-> endpoint,
                   url |-> Domain \o "/api/v1" \o endpoint,
                   timeoutMs |-> DefaultTimeout, elapsed |-> 0, timer |-> TRUE,
                   aborted |-> FALSE, outcome |-> "none", error |-> ""]
  /\ UNCHANGED <<sent, request, hourCycle, utcDateString, converted, upstream, clock, ticks,
                 pc, daysAhead, courseIdx, allAssignments, assignments, idx, synced,
                 skipped, decisions, pending, accessToken, refreshToken, calendar,
                 results, runs, faults>>

\* time passes for the request or its timer
Elapse ==
  /\ fetchCall.phase = "inflight" \/ fetchCall.timer
  /\ fetchCall.elapsed < MaxWait * TimeStep
  /\ fetchCall' = [fetchCall EXCEPT !.elapsed = @ + TimeStep]
  /\ UNCHANGED <<sent, request, hourCycle, utcDateString, converted, upstream, clock, ticks,
                 pc, daysAhead, courseIdx, allAssignments, assignments, idx, synced,
                 skipped, decisions, pending, accessToken, refreshToken, calendar,
                 results, runs, faults>>

\* the timer callback runs, no earlier than timeoutMs after the call: it
\* aborts the controller, the pending fetch rejects with an AbortError and
\* the catch block throws the timeout fault
TimerFires ==
  /\ fetchCall.timer
  /\ fetchCall.elapsed >= fetchCall.timeoutMs
  /\ fetchCall' = IF fetchCall.phase = "inflight"
                  THEN Settled([ClearTimeout(fetchCall) EXCEPT !.aborted = TRUE], "timeout")
                  ELSE [fetchCall EXCEPT !.timer = FALSE, !.aborted = TRUE]
  /\ UNCHANGED <<sent, request, hourCycle, utcDateString, converted, upstream, clock, ticks,
                 pc, daysAhead, courseIdx, allAssignments, assignments, idx, synced,
                 skipped, decisions, pending, accessToken, refreshToken, calendar,
                 results, runs, faults>>

\* the network delivers before the timeout has elapsed (the event loop runs
\* a due timer before it handles later I/O): the timer is cleared, then the
\* data is returned or the fault thrown
Arrive(outcome) ==
  /\ fetchCall.phase = "inflight"
  /\ fetchCall.elapsed < fetchCall.timeoutMs
  /\ fetchCall' = Settled(ClearTimeout(fetchCall), outcome)
  /\ UNCHANGED <<sent, request, hourCycle, utcDateString, converted, upstream, clock, ticks,
                 pc, daysAhead, courseIdx, allAssignments, assignments, idx, synced,
                 skipped, decisions, pending, accessToken, refreshToken, calendar,
                 results, runs, faults>>

InitFetch ==
  /\ upstream = <<>>
  /\ clock = Clock0
  /\ ticks = 0
  /\ pc = "idle"
  /\ daysAhead = 0
  /\ courseIdx = 0
  /\ allAssignments = <<>>
  /\ assignments = <<>>
  /\ idx = 0
  /\ synced = <<>>
  /\ skipped = <<>>
  /\ decisions = <<>>
  /\ pending = NoPending
  /\ accessToken = Undefined
  /\ refreshToken = ""
  /\ calendar = <<>>
  /\ results = <<>>
  /\ runs = 0
  /\ faults = 0
  /\ hourCycle \in HourCycles
  /\ utcDateString = NoDate
  /\ converted = NotConverted
  /\ request = NoRequest
  /\ fetchCall = NoFetch
  /\ sent = ""

NextFetch ==
  \/ \E endpoint \in FetchEndpoints : FetchStart(endpoint)
  \/ Elapse
  \/ TimerFires
  \/ \E outcome \in FetchArrivals : Arrive(outcome)

\* the event loop runs a timer callback that is due
SpecFetch == InitFetch /\ [][NextFetch]_vars /\ WF_vars(TimerFires)

(***************************************************************************)
(* The gateway with a client that also replaces the refresh token between  *)
(* operations, through the public method setRefreshToken                   *)
(***************************************************************************)
\* the refresh tokens a client sets
NewRefreshTokens == {"rt2"}

\* a setRefreshToken that leaves the cached access token in place
SetRefreshTokenKept(token) ==
  /\ pc = "idle"
  /\ refreshToken' = token
  /\ UNCHANGED <<accessToken, sent, fetchCall, request, hourCycle, utcDateString,
                 converted, upstream, clock, ticks, pc, daysAhead, courseIdx,
                 allAssignments, assignments, idx, synced, skipped, decisions, pending,
                 calendar, results, runs, faults>>

\* setRefreshToken(token), called while no operation is in progress
SetRefreshToken(token) ==
  /\ pc = "idle"
  /\ refreshToken' = token
  /\ accessToken' = Undefined
  /\ UNCHANGED <<sent, fetchCall, request, hourCycle, utcDateString, converted,
                 upstream, clock, ticks, pc, daysAhead, courseIdx, allAssignments,
                 assignments, idx, synced, skipped, decisions, pending, calendar,
                 results, runs, faults>>

NextGateway ==
  \/ \E token \in NewRefreshTokens : SetRefreshToken(token)
  \/ NextTools

SpecGateway == InitTools /\ [][NextGateway]_vars

(***************************************************************************)
(* Properties                                                              *)
(***************************************************************************)
\* the responses that carry a synced/skipped summary
Summaries == {r \in 1..Len(results) : ~results[r].isError}

\* the runs of the loop seen so far: the finished ones and the current one
Runs ==
  {[list |-> results[r].fetched, window |-> results[r].daysAhead,
    log |-> results[r].decisions] : r \in Summaries}
    \cup {[list |-> assignments, window |-> daysAhead, log |-> decisions]}

\* the least integer d with due - now <= d days
DaysDiffOf(due, now) ==
  CHOOSE d \in -40..40 : (d - 1) * DayLen < due - now /\ due - now <= d * DayLen

\* item is due within the window at instant now
Admissible(item, now, window) ==
  LET due == DateParse(item.due_at)
  IN /\ due.valid
     /\ 0 < DaysDiffOf(due.time, now)
     /\ DaysDiffOf(due.time, now) <= window

\* the number of calendar events created for item id
EventsOf(id) == Cardinality({i \in 1..Len(calendar) : calendar[i].item = id})

\* the number of entries of log with verdict v
CountVerdict(log, v) == Cardinality({i \in 1..Len(log) : log[i].verdict = v})

\* every decision of the loop follows the window test, and an item that
\* fails it is skipped without a call
C1_Decisions ==
  \A run \in Runs : \A i \in 1..Len(run.log) :
    LET d == run.log[i]
        item == run.list[i]
    IN /\ d.item = item.id
       /\ d.createInvoked <=> Admissible(item, d.now, run.window)
       /\ ~Admissible(item, d.now, run.window) => d.verdict = "skipped"

\* the calendar grows only by the event of the item the loop is at, and
\* that item passed the window test
C1_CreateStep ==
  calendar' # calendar
    => /\ pc = "awaitCreate"
       /\ calendar' = Append(calendar, pending.event)
       /\ pending.event.item = assignments[idx].id
       /\ decisions[idx].createInvoked
       /\ Admissible(assignments[idx], decisions[idx].now, daysAhead)

\* C1: createEvent is invoked for a fetched item if and only if
\* 0 < ceil((dueAt - now) / 1 day) <= daysAhead; every other item is skipped
\* and no calendar event is created for it
C1_WindowAdmission == []C1_Decisions /\ [][C1_CreateStep]_vars

\* C1 witness: in one run with daysAhead 1 an item with daysDiff 1 was
\* synced, an item with daysDiff 0 and an item beyond the window were skipped
C1_Witness ==
  \E r \in Summaries :
    LET res == results[r]
    IN /\ res.daysAhead = 1
       /\ \E i \in 1..Len(res.decisions) :
            res.decisions[i].daysDiff = 1 /\ res.decisions[i].verdict = "synced"
       /\ \E i \in 1..Len(res.decisions) :
            /\ res.decisions[i].valid
            /\ res.decisions[i].daysDiff = 0
            /\ res.decisions[i].verdict = "skipped"
       /\ \E i \in 1..Len(res.decisions) :
            /\ res.decisions[i].valid
            /\ res.decisions[i].daysDiff > res.daysAhead
            /\ res.decisions[i].verdict = "skipped"

\* what a failed createEvent leaves behind, seen from the step that fails:
\* nothing is created, one skip reason is added, the loop goes on to the
\* next item or, after the last item, the summary is returned
C2_FaultStep ==
  (pc \in {"awaitToken", "awaitCreate"} /\ faults' = faults + 1)
    => /\ calendar' = calendar
       /\ IF idx < Len(assignments)
          THEN /\ pc' = "loop"
               /\ idx' = idx + 1
               /\ assignments' = assignments
               /\ synced' = synced
               /\ Len(skipped') = Len(skipped) + 1
               /\ decisions'[idx].verdict = "skipped"
          ELSE /\ pc' = "idle"
               /\ runs' = runs + 1
               /\ Len(results') = 1
               /\ ~results'[1].isError
               /\ results'[1].synced = synced
               /\ Len(results'[1].skipped) = Len(skipped) + 1

\* every summary accounts for each fetched item in list order, and a failed
\* create shows as one skip reason that carries the failure message
C2_Summaries ==
  \A r \in Summaries :
    LET res == results[r]
        skipsUpTo(i) == CountVerdict(SubSeq(res.decisions, 1, i), "skipped")
    IN /\ Len(res.decisions) = Len(res.fetched)
       /\ \A i \in 1..Len(res.decisions) :
            /\ res.decisions[i].item = res.fetched[i].id
            /\ res.decisions[i].verdict \in {"synced", "skipped"}
            /\ (res.decisions[i].createInvoked /\ res.decisions[i].verdict = "skipped")
                 => \E m \in {"Google Calendar API error: 401",
                              "Failed to obtain access token from Google",
                              "Failed to refresh access token: invalid_grant",
                              "No refresh token available. Please authenticate first using get_google_auth_url and set_google_auth_code tools."} :
                      res.skipped[skipsUpTo(i)] =
                        (IF Truthy(res.fetched[i].name) THEN res.fetched[i].name
                         ELSE "Unknown") \o " (error: " \o m \o ")"
       /\ Len(res.synced) = CountVerdict(res.decisions, "synced")
       /\ Len(res.skipped) = CountVerdict(res.decisions, "skipped")

\* C2: a createEvent failure for one admissible item gives that item one
\* skipped entry with the failure message and the later items are still
\* processed
C2_FailureIsolation == []C2_Summaries /\ [][C2_FaultStep]_vars

\* C2 witness: three admissible items, only the second create failed: two
\* synced, one skipped
C2_Witness ==
  \E r \in Summaries :
    LET res == results[r]
    IN /\ Len(res.fetched) = 3
       /\ \A i \in 1..3 : res.decisions[i].createInvoked
       /\ res.decisions[1].verdict = "synced"
       /\ res.decisions[2].verdict = "skipped"
       /\ res.decisions[3].verdict = "synced"
       /\ Len(res.synced) = 2
       /\ Len(res.skipped) = 1

\* a failed assignment fetch ends the invocation with an error response
\* that carries no list, and nothing is created
C3_FaultStep ==
  (pc = "awaitAssignments" /\ faults' = faults + 1)
    => /\ pc' = "idle"
       /\ runs' = runs + 1
       /\ Len(results') = 1
       /\ results'[1].isError
       /\ results'[1].fetched = <<>>
       /\ assignments' = <<>>
       /\ calendar' = calendar

\* a list that is returned holds the published, dated records of every course
C3_WholeList ==
  \A r \in Summaries : \A k \in 1..Len(upstream) :
    \A j \in 1..Len(upstream[k].assignments) :
      LET raw == upstream[k].assignments[j]
      IN (raw.published /\ TruthyDate(raw.due_at))
           => \E i \in 1..Len(results[r].fetched) : results[r].fetched[i].id = raw.id

\* C3: if the assignment fetch of any one course fails, getUpcomingAssignments
\* raises and returns no list: records of earlier courses are never returned
C3_FailFast == []C3_WholeList /\ [][C3_FaultStep]_vars

\* C3 witness: the fetch for the second course failed after the first course
\* had given a published, dated record
C3_Witness ==
  /\ Len(upstream) >= 2
  /\ \E j \in 1..Len(upstream[1].assignments) :
       upstream[1].assignments[j].published /\ TruthyDate(upstream[1].assignments[j].due_at)
  /\ \E r \in 1..Len(results) :
       /\ results[r].isError
       /\ results[r].text = "Error: Failed to fetch assignments for course \"Course2\": Canvas API error: 500 Internal Server Error"

\* the windows a caller can ask for
Windows == {DaysAheadOf(arg) : arg \in DaysAheadArgs}

\* runs invocations have returned, the clock stood still, no upstream call
\* failed and a refresh token is configured: every createEvent call succeeded
QuietRuns ==
  /\ pc = "idle"
  /\ runs >= 1
  /\ ticks = 0
  /\ faults = 0
  /\ Truthy(refreshToken)
  /\ Summaries # {}

\* C4: sync runs over the same upstream items and the same clock, all creates
\* succeeding, each create one event per admissible item: an item within
\* the window of every run has as many events as there were runs
C4_NoMemory ==
  QuietRuns =>
    \A r \in Summaries : \A i \in 1..Len(results[r].fetched) :
      LET item == results[r].fetched[i]
      IN /\ results[r].decisions[i].createInvoked
              <=> Admissible(item, clock, results[r].daysAhead)
         /\ (\A w \in Windows : Admissible(item, clock, w)) => EventsOf(item.id) = runs
         /\ (\A w \in Windows : ~Admissible(item, clock, w)) => EventsOf(item.id) = 0
         /\ EventsOf(item.id) <= runs

\* C4 witness: two quiet runs, an item admissible in both has two events
C4_Witness ==
  /\ QuietRuns
  /\ runs = 2
  /\ \E r \in Summaries : \E i \in 1..Len(results[r].fetched) :
       /\ \A w \in Windows : Admissible(results[r].fetched[i], clock, w)
       /\ EventsOf(results[r].fetched[i].id) = 2

\* the normalized items seen so far, in returned lists and in the current one
Normalized == UNION {{run.list[i] : i \in 1..Len(run.list)} : run \in Runs}

\* the raw records the LMS holds
RawRecords ==
  UNION {{upstream[k].assignments[j] : j \in 1..Len(upstream[k].assignments)} :
           k \in 1..Len(upstream)}

\* the markers of a raw record, read where the assignments endpoint puts them
QuizIdentifier(raw) == TruthyNum(raw.quiz_id) \/ raw.is_quiz_assignment
OnlineQuizType(raw) == "online_quiz" \in raw.submission_types
QuizMarker(raw) == QuizIdentifier(raw) \/ OnlineQuizType(raw)
DiscussionReference(raw) == raw.discussion_topic
DiscussionType(raw) == "discussion_topic" \in raw.submission_types
DiscussionMarker(raw) == DiscussionReference(raw) \/ DiscussionType(raw)
AssignmentMarker(raw) == raw.assignment.present \/ raw.type = "assignment"

\* C5: every raw item with a quiz marker is normalized to kind quiz, also
\* when it carries a discussion marker
C5_QuizWins ==
  \A item \in Normalized : QuizMarker(item.assignment) => item.type = "quiz"

\* C6: a raw item without quiz identifier whose submission types include
\* online_quiz is normalized to kind quiz
C6_OnlineQuizIsQuiz ==
  \A item \in Normalized :
    (~QuizIdentifier(item.assignment) /\ OnlineQuizType(item.assignment))
      => item.type = "quiz"

\* C7: a raw item without quiz marker is normalized to kind discussion when
\* it has a discussion-topic reference or the discussion_topic submission type
C7_DiscussionEitherMarker ==
  \A item \in Normalized :
    (~QuizMarker(item.assignment) /\ DiscussionMarker(item.assignment))
      => item.type = "discussion"

\* C8: a raw item without quiz, discussion and assignment-shaped marker is
\* normalized to kind event, and kind assignment goes only to items with an
\* assignment-shaped marker
C8_PriorityWithFallback ==
  \A item \in Normalized :
    /\ (~QuizMarker(item.assignment) /\ ~DiscussionMarker(item.assignment)
          /\ ~AssignmentMarker(item.assignment)) => item.type = "event"
    /\ item.type = "assignment" => AssignmentMarker(item.assignment)

\* a raw record without a due date at either level
Undated(raw) == ~TruthyDate(raw.due_at) /\ ~TruthyDate(raw.assignment.due_at)

\* C9: a raw item with neither a top-level nor a nested due date never
\* becomes a normalized item and no calendar event is created for it
C9_UndatedNeverNormalized ==
  \A raw \in RawRecords :
    Undated(raw) =>
      /\ \A item \in Normalized : item.id # raw.id
      /\ EventsOf(raw.id) = 0

\* C9 witness: the LMS holds a published undated record, a list was returned
\* and events were created from it
C9_Witness ==
  /\ \E raw \in RawRecords : Undated(raw) /\ raw.published
  /\ \E r \in Summaries : Len(results[r].fetched) > 0
  /\ Len(calendar) > 0

\* C10: a published raw item whose only due date is the nested
\* assignment.due_at is normalized, with dueAt equal to the nested value
C10_NestedDueNormalized ==
  \A r \in Summaries : \A raw \in RawRecords :
    (raw.published /\ ~TruthyDate(raw.due_at) /\ raw.assignment.present
       /\ TruthyDate(raw.assignment.due_at))
      => \E i \in 1..Len(results[r].fetched) :
           /\ results[r].fetched[i].id = raw.id
           /\ results[r].fetched[i].due_at = raw.assignment.due_at

\* a raw record with no name-bearing field
Nameless(raw) == ~Truthy(raw.name) /\ ~Truthy(raw.assignment.name)

PlacesOf(id) ==
  {<<k, j>> \in (1..Len(upstream)) \X (1..(MaxItems + 1)) :
     j <= Len(upstream[k].assignments) /\ upstream[k].assignments[j].id = id}

\* place p comes before place q in upstream order
Before(p, q) == p[1] < q[1] \/ (p[1] = q[1] /\ p[2] < q[2])

\* C12: the returned list keeps upstream order: courses in upstream order,
\* records of one course in upstream order, nothing twice
C12_OrderPreserved ==
  \A r \in Summaries :
    LET list == results[r].fetched
    IN /\ \A i \in 1..Len(list) : Cardinality(PlacesOf(list[i].id)) = 1
       /\ \A i \in 1..Len(list) : \A j \in 1..Len(list) :
            i < j => \A p \in PlacesOf(list[i].id) : \A q \in PlacesOf(list[j].id) :
                       Before(p, q)

\* C12 witness: a returned list with two records of one course followed by
\* a record of a later course
C12_Witness ==
  \E r \in Summaries :
    LET list == results[r].fetched
    IN /\ Len(list) >= 3
       /\ list[1].assignment.course_id = list[2].assignment.course_id
       /\ list[2].assignment.course_id < list[3].assignment.course_id

\* the number of entries of list that carry the record id
TimesIn(list, id) == Cardinality({i \in 1..Len(list) : list[i].id = id})

C14_NullOrPair ==
  converted # NotConverted =>
    /\ utcDateString.kind \in {"undefined", "null", "empty", "garbage"}
         => converted = NullEST
    /\ utcDateString.kind = "iso"
         => converted.ok /\ Len(converted.datetime) = 19 /\ Len(converted.readable) > 0

\* C14 witness: convertToEST was called with an unparseable string and
\* returned null
C14_Witness == utcDateString = GarbageDate /\ converted = NullEST

\* the wall-clock time of instant t in America/New_York, hours 00 to 23
WallClock(t) ==
  LET Format(c) ==
        ToString(c.y) \o "-" \o Pad2(c.mo) \o "-" \o Pad2(c.d) \o "T"
          \o Pad2(c.h) \o ":" \o Pad2(c.mi) \o ":" \o Pad2(c.s)
  IN Format(CivilAt(t, NewYorkOffset(t)))

\* C15: for every parseable instant the datetime convertToEST returns is the
\* wall-clock time in America/New_York as YYYY-MM-DDTHH:mm:ss, on the local
\* calendar date; 2025-11-08T04:59:59Z gives 2025-11-07T23:59:59 and a
\* display string that starts with November 7, 2025
C15_WallClock ==
  (converted # NotConverted /\ utcDateString.kind = "iso") =>
    /\ converted.datetime = WallClock(DateParse(utcDateString).time)
    /\ utcDateString = Iso(2025, 11, 8, 4, 59, 59)
         => /\ converted.datetime = "2025-11-07T23:59:59"
            /\ converted.readable = "November 7, 2025 at 11:59 PM"

\* the loop never takes its two conversion-failure branches: an admitted
\* item has a due date that parses, and so has the instant one hour later
ConversionBranchesUnreached ==
  \A run \in Runs : \A i \in 1..Len(run.log) :
    run.log[i].cause \notin {"date conversion failed", "end date conversion failed"}

\* a createEvent call is in progress
CreateInProgress == pc \in {"awaitToken", "awaitCreate"}

\* C17: every payload passed to createEvent has start equal to the
\* conversion of the item's dueAt, end equal to the conversion of dueAt plus
\* one hour, both in America/New_York, and exactly the two reminders 1440
\* and 60 minutes before start
C17_Payload ==
  CreateInProgress =>
    LET item == assignments[idx]
        event == pending.event
        due == DateParse(item.due_at)
    IN /\ due.valid
       /\ event.start.dateTime = convertToEST(item.due_at).datetime
       /\ event.end.dateTime =
            convertToEST(ToISOString(DateOf(due.time + 60 * 60))).datetime
       /\ event.start.timeZone = "America/New_York"
       /\ event.end.timeZone = "America/New_York"
       /\ ~event.reminders.useDefault
       /\ Len(event.reminders.overrides) = 2
       /\ event.reminders.overrides[1].minutes = 1440
       /\ event.reminders.overrides[2].minutes = 60

\* C17 witness: the payload of an item due 2025-11-08T04:59:59Z is with
\* createEvent: it starts 2025-11-07T23:59:59 and ends one hour later
C17_Witness ==
  /\ pc = "awaitCreate"
  /\ assignments[idx].due_at = Due1
  /\ pending.event.start.dateTime = "2025-11-07T23:59:59"
  /\ pending.event.end.dateTime = "2025-11-08T00:59:59"

\* a step in which the handler takes up an invocation
ToolCalled == pc = "idle" /\ (pc' # "idle" \/ runs' = runs + 1)

\* a step in which an upstream call completes with a failure
UpstreamFailed == faults' = faults + 1

\* the step returns the one text "Error: <message>" with the failure marker
\* and leaves the handler ready for the next invocation
Answered(message) ==
  /\ pc' = "idle"
  /\ runs' = runs + 1
  /\ Len(results') = 1
  /\ results'[1].isError
  /\ results'[1].text = "Error: " \o message

\* the arguments the schema of a tool requires
RequiredOf(name) ==
  IF name = "set_google_auth_code" THEN {"code"}
  ELSE IF name = "create_calendar_event" THEN {"title", "startTime", "endTime"}
  ELSE IF name \in {"update_calendar_event", "delete_calendar_event"} THEN {"eventId"}
  ELSE {}

\* req lacks a required argument
Lacking(req) == \E f \in RequiredOf(req.name) : ~Truthy(req.arguments[f])

\* C18: every tool invocation whose handling raises a fault (unknown tool
\* name, validation fault, gateway fault, failed Canvas fetch) returns the
\* one text 'Error: <fault message>' with isError set, and the handler is
\* ready for the next invocation
C18_FaultStep ==
  /\ ToolCalled /\ request'.name \notin ToolNames
       => Answered("Unknown tool: " \o request'.name)
  /\ ToolCalled /\ Lacking(request')
       => \E m \in {"Authorization code is required",
                    "title, startTime, and endTime are required",
                    "eventId is required"} : Answered(m)
  /\ ToolCalled /\ request'.name \in CalendarTools /\ ~Lacking(request')
       /\ ~Truthy(accessToken) /\ ~Truthy(refreshToken)
       => Answered("No refresh token available. Please authenticate first using get_google_auth_url and set_google_auth_code tools.")
  /\ UpstreamFailed /\ pc = "toolExchange"
       => Answered("Failed to exchange code for tokens: invalid_grant")
  /\ UpstreamFailed /\ pc = "toolToken"
       => \E m \in {"Failed to obtain access token from Google",
                    "Failed to refresh access token: invalid_grant"} : Answered(m)
  /\ UpstreamFailed /\ pc = "toolApi"
       => \E resp \in ApiResponses : Answered(ApiFault(request.name, resp))
  /\ UpstreamFailed /\ pc = "awaitCourses"
       => \E o \in FetchOutcomes : Answered(FetchError(o, "/courses?enrollment_state=active"))
  /\ UpstreamFailed /\ pc = "awaitAssignments"
       => \E o \in FetchOutcomes :
            Answered("Failed to fetch assignments for course \"Course1\": "
                       \o FetchError(o, "/courses/1/assignments"))

C18_FaultsAnswered == [][C18_FaultStep]_vars

\* C18 witness: update_calendar_event got a 401 from the calendar API, the
\* handler returned the fault's message with the marker and is idle again
C18_Witness ==
  /\ pc = "idle"
  /\ request.name = "update_calendar_event"
  /\ Len(results) = 1
  /\ results[1].isError
  /\ results[1].text = "Error: Google Calendar API error: 401 - Unauthorized"

\* the message of the validation fault of a tool
ValidationMessage(name) ==
  IF name = "set_google_auth_code" THEN "Authorization code is required"
  ELSE IF name = "create_calendar_event" THEN "title, startTime, and endTime are required"
  ELSE "eventId is required"

\* C19: an invocation that lacks a required argument (code; title, startTime
\* or endTime; eventId) fails with the validation fault of its tool in the
\* step that takes it up: no network call is issued or completed, and the
\* credentials and the calendar are as before
C19_ValidationStep ==
  ToolCalled /\ Lacking(request') =>
    /\ Answered(ValidationMessage(request'.name))
    /\ pc' \notin {"toolExchange", "toolToken", "toolApi"}
    /\ faults' = faults
    /\ accessToken' = accessToken
    /\ refreshToken' = refreshToken
    /\ calendar' = calendar

C19_ValidationFirst == [][C19_ValidationStep]_vars

\* C19 witness: with a credential cached, create_calendar_event was invoked
\* with a title and no startTime and returned the validation fault
C19_Witness ==
  /\ pc = "idle"
  /\ accessToken = "at1"
  /\ request.name = "create_calendar_event"
  /\ request.arguments.title = "Exam"
  /\ request.arguments.startTime = Undefined
  /\ Len(results) = 1
  /\ results[1].text = "Error: title, startTime, and endTime are required"

\* a credential exchange of getAccessToken is in flight
Exchanging == pc \in {"awaitToken", "toolToken"}

\* a call of the calendar API is in flight
CallingApi == pc \in {"awaitCreate", "toolApi"}

\* an exchange is in flight only while no credential is cached, and an API
\* call only once one is
C20_ExchangeFirst ==
  /\ Exchanging => ~Truthy(accessToken) /\ Truthy(refreshToken)
  /\ CallingApi => Truthy(accessToken)

\* a cached credential stays as it is through every calendar operation,
\* failed API calls included, and no such operation starts an exchange; an
\* operation that finds none cached goes to the exchange, not to the API
C20_ReuseStep ==
  /\ Truthy(accessToken) /\ pc # "toolExchange"
       => accessToken' = accessToken /\ pc' \notin {"awaitToken", "toolToken"}
  /\ ~Truthy(accessToken) /\ pc \in {"idle", "loop"}
       => pc' \notin {"awaitCreate", "toolApi"}

\* C20: with no credential cached the first calendar operation exchanges the
\* long-lived credential before its API call; once an exchange has succeeded
\* every later calendar operation reuses the cached credential without a
\* further exchange, also after a calendar call has failed
C20_CredentialCaching == []C20_ExchangeFirst /\ [][C20_ReuseStep]_vars

\* C20 witness: the create for the first item exchanged the credential and
\* its API call failed; the create for the second item is at its API call
\* with the same cached credential
C20_Witness ==
  /\ pc = "awaitCreate"
  /\ idx = 2
  /\ faults = 1
  /\ accessToken = "at1"
  /\ skipped = <<ErrorReason(assignments[1], "Google Calendar API error: 401")>>

\* the pieces the gateway's fault templates put around status and body
FaultFragments == {"", "Error: Google Calendar API error: ", " - "}

\* text carries the status code and the body text of resp
Carries(text, resp) ==
  \E a \in FaultFragments, b \in FaultFragments, c \in FaultFragments :
    text = a \o ToString(resp.status) \o b \o resp.body \o c

\* the non-2xx answers of the calendar API
Refusals == {resp \in ApiResponses : ~(resp.status >= 200 /\ resp.status < 300)}

\* C21: a non-2xx answer of the calendar API to createEvent, listEvents,
\* updateEvent or deleteEvent becomes a fault whose message carries both the
\* status code and the upstream body text
C21_FaultStep ==
  UpstreamFailed /\ pc = "toolApi"
    => \E resp \in Refusals : Carries(results'[1].text, resp)

C21_StatusAndBody == [][C21_FaultStep]_vars

\* the same for the operations other than createEvent
C21_OthersStep ==
  UpstreamFailed /\ pc = "toolApi" /\ request.name # "create_calendar_event"
    => \E resp \in Refusals : Carries(results'[1].text, resp)

C21_OthersStatusAndBody == [][C21_OthersStep]_vars

\* the stamped records of the courses before course k, in course order
RECURSIVE FetchedBefore(_)
FetchedBefore(k) ==
  IF k <= 1 THEN <<>>
  ELSE FetchedBefore(k - 1) \o Stamp(upstream[k - 1].assignments, upstream[k - 1])

\* the outbound calls in flight: the Canvas fetch the handler waits for and
\* the createEvent calls that have been invoked and have not settled
OutboundCalls ==
  (IF pc \in {"awaitCourses", "awaitAssignments"} THEN 1 ELSE 0)
    + CountVerdict(decisions, "pending")

\* C22: within one invocation at most one outbound call is in flight: the
\* fetch for course k+1 is issued only when the fetches of courses 1..k have
\* completed, and createEvent for item k+1 only when the create for item k
\* has completed or failed, in list order
C22_OneCallInFlight ==
  /\ OutboundCalls <= 1
  /\ pc = "awaitAssignments" => allAssignments = FetchedBefore(courseIdx)
  /\ \A i \in 1..Len(decisions) :
       /\ decisions[i].item = assignments[i].id
       /\ decisions[i].verdict = "pending"
            => i = Len(decisions) /\ i = idx /\ pc \in {"awaitToken", "awaitCreate"}
  /\ pc \in {"awaitToken", "awaitCreate"}
       => Len(decisions) = idx /\ decisions[idx].verdict = "pending"
  /\ pc = "loop" => Len(decisions) = idx - 1

\* C22 witness: the fetch of the second course went out after the first
\* course's records arrived, and later the create for the second item is in
\* flight after the create for the first item has completed
C22_Witness ==
  /\ pc = "awaitCreate"
  /\ idx = 2
  /\ decisions[1].verdict = "synced"
  /\ decisions[1].createInvoked
  /\ assignments[2].context_code = "course_2"

\* the request has been in flight for its whole timeout
TimedOut == fetchCall.phase = "inflight" /\ fetchCall.elapsed >= fetchCall.timeoutMs

\* what holds of a request of CanvasClient.fetch in every state
C23_Timer ==
  /\ fetchCall.aborted => fetchCall.elapsed >= fetchCall.timeoutMs
  /\ fetchCall.outcome = "timeout" <=> fetchCall.phase = "settled" /\ fetchCall.aborted
  /\ fetchCall.outcome = "timeout"
       => fetchCall.error = "Canvas API timeout after 30000ms for " \o fetchCall.url
  /\ fetchCall.outcome \in {"http", "network"}
       => fetchCall.error \in {"Canvas API error: 500 Internal Server Error", "fetch failed"}
  /\ fetchCall.phase = "settled" => ~fetchCall.timer
  /\ TimedOut => fetchCall.timer

\* C23: a request with no response when its timeout (30000 ms) has elapsed
\* is aborted and fails with the timeout fault naming the duration, which
\* differs from the faults of a network error and of a non-2xx response; a
\* request that completes before the timeout is never aborted by the timer
C23_TimeoutFault == []C23_Timer /\ (TimedOut ~> fetchCall.outcome = "timeout")

\* C23 witness: a request for a course's assignments got no response for
\* 30000 ms and was aborted with the timeout fault
C23_Witness ==
  /\ fetchCall.phase = "settled"
  /\ fetchCall.aborted
  /\ fetchCall.elapsed = 30000
  /\ fetchCall.error = "Canvas API timeout after 30000ms for https://canvas.test/api/v1/courses/1/assignments"

\* the due-date string of item is present and does not parse
Unparseable(item) ==
  TruthyDate(DueAtField(item)) /\ ~DateParse(DueAtField(item)).valid

\* C24: in sync an item whose due-date string is present but does not parse
\* is skipped with the reason 'invalid due date', without an exception being
\* raised for it
C24_InvalidDateSkipped ==
  \A run \in Runs : \A i \in 1..Len(run.log) :
    Unparseable(run.list[i])
      => run.log[i].verdict = "skipped" /\ run.log[i].cause = "invalid due date"

\* the loop goes on after an item whose due date does not parse: the item
\* has one decision, skipped without a call, and the next item has its own
C24_LoopGoesOn ==
  \A run \in Runs : \A i \in 1..Len(run.log) :
    Unparseable(run.list[i])
      => run.log[i].verdict = "skipped" /\ ~run.log[i].createInvoked

\* the points field as claimed: the item's points whenever it has a value
PointsShown(item) ==
  IF item.points_possible # NoNumber THEN ToString(item.points_possible) ELSE "N/A"

\* the description of the event for item with the points field as claimed
ClaimedDescription(item, dueEST) ==
  TypeInfo(item.type).label \o "\n\nDue: " \o dueEST.readable \o " EST\nPoints: "
    \o PointsShown(item) \o "\nCourse: " \o OrString(item.context_name, "N/A")
    \o "\n\nLink: " \o OrString(item.html_url, "")

\* C25: the points field of the event description built by sync shows the
\* item's pointsPossible whenever the item has one, a value of 0 included,
\* and N/A only when the item has no points value
C25_PointsShown ==
  CreateInProgress =>
    pending.event.description
      = ClaimedDescription(assignments[idx], convertToEST(assignments[idx].due_at))

\* the same for the items whose points are not 0
C25_NonZeroPointsShown ==
  CreateInProgress /\ assignments[idx].points_possible # 0 =>
    pending.event.description
      = ClaimedDescription(assignments[idx], convertToEST(assignments[idx].due_at))

\* C26: a sync run that got its item list accounts for every item exactly
\* once: the returned summary has one decision per item, in list order, and
\* synced.length + skipped.length is the number of items fetchAssignments
\* returned
C26_EveryItemOnce ==
  \A r \in Summaries :
    /\ Len(results[r].synced) + Len(results[r].skipped) = Len(results[r].fetched)
    /\ Len(results[r].decisions) = Len(results[r].fetched)
    /\ \A i \in 1..Len(results[r].decisions) :
         /\ results[r].decisions[i].item = results[r].fetched[i].id
         /\ results[r].decisions[i].verdict \in {"synced", "skipped"}
    /\ CountVerdict(results[r].decisions, "synced") = Len(results[r].synced)
    /\ CountVerdict(results[r].decisions, "skipped") = Len(results[r].skipped)

\* C26 witness: a run over three items returned: one was synced, one was
\* skipped without a call and the createEvent of one failed
C26_Witness ==
  /\ pc = "idle"
  /\ Len(results) = 1
  /\ ~results[1].isError
  /\ Len(results[1].fetched) = 3
  /\ Len(results[1].synced) = 1
  /\ Len(results[1].skipped) = 2
  /\ \E i \in 1..3 : /\ results[1].decisions[i].verdict = "skipped"
                     /\ results[1].decisions[i].createInvoked
  /\ \E i \in 1..3 : /\ results[1].decisions[i].verdict = "skipped"
                     /\ ~results[1].decisions[i].createInvoked

\* fetchAssignments of sync_to_calendar is in progress
Fetching == pc \in {"awaitCourses", "awaitAssignments"}

\* the messages of the faults fetchAssignments can end with in this state
FetchFaults ==
  {FetchError(o, "/courses?enrollment_state=active") : o \in {"http", "timeout"}}
    \cup {"Failed to fetch assignments for course \"" \o upstream[k].name \o "\": "
            \o FetchError(o, "/courses/" \o ToString(upstream[k].id) \o "/assignments") :
            k \in 1..Len(upstream), o \in {"http", "timeout"}}

\* while the list is being fetched no createEvent has been invoked and
\* nothing has been recorded
C27_NothingYet ==
  Fetching => decisions = <<>> /\ synced = <<>> /\ skipped = <<>> /\ pending = NoPending

\* a failed fetch ends the invocation with the fault's message and the
\* failure marker, without a summary, a calendar change or a credential
C27_FaultStep ==
  Fetching /\ UpstreamFailed
    => /\ pc' = "idle"
       /\ Len(results') = 1
       /\ results'[1].isError
       /\ \E m \in FetchFaults : results'[1].text = "Error: " \o m
       /\ results'[1].synced = <<>> /\ results'[1].skipped = <<>>
       /\ results'[1].decisions = <<>>
       /\ calendar' = calendar
       /\ accessToken' = accessToken

\* C27: if fetchAssignments fails during sync_to_calendar (the courses fetch
\* or any course's assignment fetch), createEvent is never invoked in that
\* invocation, no synced/skipped summary is returned and the result is the
\* error message with the failure marker
C27_FetchFailure == []C27_NothingYet /\ [][C27_FaultStep]_vars

\* C27 witness: the LMS has a record that would be synced, the courses
\* fetch of the first invocation timed out, and the result is the error
\* with an empty calendar and no credential exchanged
C27_Witness ==
  /\ pc = "idle"
  /\ runs = 1
  /\ Len(upstream) >= 1
  /\ Len(FilterAndTransform(Stamp(upstream[1].assignments, upstream[1]))) >= 1
  /\ Len(results) = 1
  /\ results[1].isError
  /\ results[1].text = "Error: Canvas API timeout after 30000ms for https://canvas.test/api/v1/courses?enrollment_state=active"
  /\ calendar = <<>>
  /\ accessToken = Undefined

\* a step of setRefreshToken: no invocation starts or returns, and a
\* credential of the gateway changes
RefreshTokenSet ==
  /\ pc = "idle" /\ pc' = "idle" /\ runs' = runs
  /\ refreshToken' # refreshToken \/ accessToken' # accessToken

\* a refresh in flight carries the refresh token the gateway holds, and an
\* access token cached from a refresh was granted for the refresh token the
\* gateway holds: none granted for a replaced token is left to be used
C28_FreshCredential ==
  /\ Exchanging => sent = refreshToken
  /\ accessToken = "at1" => sent = refreshToken
  /\ CallingApi => Truthy(accessToken)

\* setRefreshToken holds the new token and no cached access token afterwards
C28_SetStep ==
  RefreshTokenSet => refreshToken' \in NewRefreshTokens /\ ~Truthy(accessToken')

\* C28: setRefreshToken replaces the long-lived credential and clears the
\* cached short-lived one, so the next calendar operation exchanges the new
\* long-lived credential and never uses the credential cached before
C28_Replaced == []C28_FreshCredential /\ [][C28_SetStep]_vars

\* C28 witness: the first invocation created an event with a credential it
\* cached; then setRefreshToken set rt2, and the second invocation is at its
\* API call after a refresh that carried rt2
C28_Witness ==
  /\ pc = "toolApi"
  /\ runs = 1
  /\ Len(calendar) = 1
  /\ refreshToken = "rt2"
  /\ sent = "rt2"
  /\ accessToken = "at1"

\* C29: a failed credential operation leaves the credentials as they were:
\* a refused code exchange changes neither the cached access token nor the
\* refresh token; a getAccessToken without a refresh token, or whose refresh
\* fails, caches no access token and is followed by no calendar API call
C29_FailureStep ==
  /\ pc = "toolExchange" /\ UpstreamFailed
       => accessToken' = accessToken /\ refreshToken' = refreshToken
  /\ pc \in {"idle", "loop"} /\ ~Truthy(accessToken) /\ ~Truthy(refreshToken)
       => /\ pc' \notin {"awaitToken", "toolToken", "awaitCreate", "toolApi"}
          /\ ~Truthy(accessToken')
          /\ refreshToken' = refreshToken
          /\ calendar' = calendar
  /\ Exchanging /\ UpstreamFailed
       => /\ pc' \notin {"awaitCreate", "toolApi"}
          /\ ~Truthy(accessToken')
          /\ refreshToken' = refreshToken
          /\ calendar' = calendar

C29_CredentialsKept == [][C29_FailureStep]_vars

\* C29 witness: with an access token cached for rt0, set_google_auth_code
\* was refused by the token endpoint; both credentials are as before
C29_Witness ==
  /\ pc = "idle"
  /\ runs = 2
  /\ request.name = "set_google_auth_code"
  /\ Len(results) = 1
  /\ results[1].text = "Error: Failed to exchange code for tokens: invalid_grant"
  /\ accessToken = "at1"
  /\ refreshToken = "rt0"
====
